---- MODULE Spec2Model ----
(***************************************************************************)
(* Risk evaluation subsystem of bc3412 (src/risk_eval/risk_evaluator.py):  *)
(* the three domain evaluators, and run_comprehensive_risk_assessment with *)
(* its persistence step.                                                   *)
(*                                                                         *)
(* Numbers are floats in the program.  They are modelled as integers in    *)
(* hundredths (1.5 is 150), with NaN as a distinguished value on which     *)
(* every comparison is false and which every arithmetic operation          *)
(* propagates, as IEEE-754 does.                                           *)
(*                                                                         *)
(* The Holt model of statsmodels is a library: what it returns for a       *)
(* series (a forecast, or an exception) is part of the data drawn in Init. *)
(***************************************************************************)
EXTENDS Integers, Sequences, FiniteSets, TLC

VARIABLES
    climate_data,   \* Data/temprisedata2.csv together with Holt's answer per country
    carbon_data,    \* Data/carbon_pricing_filtered.csv, the same
    tech_data,      \* Data/trade_tech_filtered.csv, the same
    countries,      \* the argument of the call in progress (or of the last call)
    climate_ret,    \* what evaluate_climate_risk returned last
    carbon_ret,     \* what evaluate_carbon_price_risk returned last
    tech_ret,       \* what evaluate_technology_risk returned last
    pc,             \* position inside run_comprehensive_risk_assessment
    results,        \* the local `results` of run_comprehensive_risk_assessment
    returned,       \* what run_comprehensive_risk_assessment returned last
    file,           \* risk_eval/result/latest_assessment.json
    dir_exists,     \* whether risk_eval/result exists
    today,          \* the date pd.Timestamp.now() gives
    invoked,        \* the evaluators invoked by the call in progress (or the last one)
    failed_step,    \* the step of the last call that raised ("none" if none did)
    last_good,      \* history: the bundle the most recent non-degraded call returned
    previous,       \* history: what the evaluators returned at the call before the last
    callers,        \* the threads inside run_comprehensive_risk_assessment at once
    holt_series,    \* a historical series, and what an evaluator hands to Holt for it
    backend         \* src/backend_api.py: the Gemini client, the enhanced CSV, the pathway
                    \* HTML files, the threads inside /process, the last response

vars == << climate_data, carbon_data, tech_data, countries, climate_ret, carbon_ret,
           tech_ret, pc, results, returned, file, dir_exists, today, invoked,
           failed_step, last_good, previous, callers, holt_series, backend >>

----------------------------------------------------------------------------
(* Bounds of the model *)

\* longest country list handed to a domain evaluator
MaxCountries == 3
\* largest final temperature forecast of the classification grid, in hundredths
GridMax == 400

\* the country names a caller may pass; a name the data does not hold is "absent" there
Names == {"A", "B", "C"}

\* all country lists of at most n entries (a list may repeat a name)
Lists(n) == UNION { [1..k -> Names] : k \in 0..n }

----------------------------------------------------------------------------
(* Floats *)

NaN == 0 - 1000000

IsNaN(x) == x = NaN
\* x <= y, x > y on floats: false as soon as one side is NaN
Le(x, y) == ~IsNaN(x) /\ ~IsNaN(y) /\ x <= y
Gt(x, y) == ~IsNaN(x) /\ ~IsNaN(y) /\ x > y
Add(x, y) == IF IsNaN(x) \/ IsNaN(y) THEN NaN ELSE x + y
Sub(x, y) == IF IsNaN(x) \/ IsNaN(y) THEN NaN ELSE x - y

Last(s) == s[Len(s)]

\* what an evaluator variable holds before the evaluator was ever called
NotEvaluated == [overall_risk |-> "NotEvaluated"]

----------------------------------------------------------------------------
(* evaluate_climate_risk *)

\* thresholds of the climate classification, in hundredths of a degree
LowMax == 150
MedMin == 160
MedMax == 290
\* years_to_forecast
ClimateHorizon == 3

ClimateRiskLevelLowStrict(final_forecast) ==
    IF ~IsNaN(final_forecast) /\ final_forecast < LowMax THEN "Low"
    ELSE IF Le(MedMin, final_forecast) /\ Le(final_forecast, MedMax) THEN "Medium"
    ELSE "High"

\* lines 63-71: the if / elif / else on final_forecast
ClimateRiskLevel(final_forecast) ==
    IF Le(final_forecast, LowMax) THEN "Low"
    ELSE IF Le(MedMin, final_forecast) /\ Le(final_forecast, MedMax) THEN "Medium"
    ELSE "High"

\* round(final_forecast, 2): the model's floats are hundredths already
Round2(x) == x

\* the key of count_risk a risk label is tallied under
TallyKey(level) == IF level = "Medium" THEN "Med" ELSE level

ClimateEntryAbsentInsufficient(d) ==
    IF d.kind = "absent" \/ d.kind = "allnull"
    THEN [status |-> "Insufficient data", risk_level |-> "Unknown"]
    ELSE IF d.kind = "raise"
    THEN [status |-> "Error in forecasting: " \o d.msg, risk_level |-> "Unknown"]
    ELSE [status |-> "Forecasted",
          risk_level |-> ClimateRiskLevel(Last(d.forecast)),
          forecast_temp_rise |-> Round2(Last(d.forecast))]

\* the entry of one country: d is what the data holds for it
ClimateEntry(d) ==
    IF d.kind = "absent"
    THEN [status |-> "No data available", risk_level |-> "Unknown"]
    ELSE IF d.kind = "allnull"
    THEN [status |-> "Insufficient data", risk_level |-> "Unknown"]
    ELSE IF d.kind = "raise"
    THEN [status |-> "Error in forecasting: " \o d.msg, risk_level |-> "Unknown"]
    ELSE [status |-> "Forecasted",
          risk_level |-> ClimateRiskLevel(Last(d.forecast)),
          forecast_temp_rise |-> Round2(Last(d.forecast))]

\* count_risk after one country: only a forecasted country is tallied
ClimateTally(acc, e) ==
    IF e.status = "Forecasted"
    THEN [acc EXCEPT ![TallyKey(e.risk_level)] = @ + 1]
    ELSE acc

ClimateOverallMedTie(count_risk) ==
    IF count_risk["High"] > 0 THEN "High"
    ELSE IF count_risk["Med"] >= count_risk["Low"] THEN "Medium"
    ELSE "Low"

\* lines 85-91
ClimateOverall(count_risk) ==
    IF count_risk["High"] > 0 THEN "High"
    ELSE IF count_risk["Med"] > count_risk["Low"] THEN "Medium"
    ELSE "Low"

\* the for loop of lines 32-83, from position i on
RECURSIVE ClimateLoop(_, _, _, _)
ClimateLoop(cs, data, i, acc) ==
    IF i > Len(cs) THEN acc
    ELSE LET e == ClimateEntry(data.area[cs[i]])
         IN  ClimateLoop(cs, data, i + 1,
                 [count_risk    |-> ClimateTally(acc.count_risk, e),
                  country_risks |-> (cs[i] :> e) @@ acc.country_risks])

evaluate_climate_risk(cs, data) ==
    IF ~data.readable
    THEN [overall_risk |-> "Unknown", error |-> data.msg]
    ELSE LET end == ClimateLoop(cs, data, 1,
                        [count_risk    |-> [k \in {"High", "Med", "Low"} |-> 0],
                         country_risks |-> << >>])
         IN  [overall_risk  |-> ClimateOverall(end.count_risk),
              country_risks |-> end.country_risks]

----------------------------------------------------------------------------
(* evaluate_carbon_price_risk *)

\* line 151: the measures forecast per source, in the order of the loop
Measures == << "FUETAX", "CARBTAX", "MPERPRI", "SUBSID" >>

ECRMeasuresWithSubsid == << "CARBTAX", "FUETAX", "MPERPRI", "SUBSID" >>

\* line 184: the measures whose change is summed into ecr_change
ECRMeasures == << "CARBTAX", "FUETAX", "MPERPRI" >>

\* line 159: model_fit.forecast(4)
CarbonHorizon == 4

\* pred.isna().all() and pred.fillna(v)
IsNaAll(pred) == \A k \in 1..Len(pred) : IsNaN(pred[k])
FillNa(pred, v) == [k \in 1..Len(pred) |-> IF IsNaN(pred[k]) THEN v ELSE pred[k]]

CarbonMeasureEntryErrorUnknown(md) ==
    IF md.kind = "raise"
    THEN [status |-> "Error in forecasting: " \o md.msg, risk_level |-> "Unknown"]
    ELSE LET pred          == IF IsNaAll(md.pred) THEN FillNa(md.pred, md.initial)
                              ELSE md.pred
             initial_value == md.initial
             final_value   == Last(pred)
         IN  [initial  |-> initial_value,
              forecast |-> final_value,
              change   |-> Sub(final_value, initial_value)]

\* lines 155-180: the entry of one measure of one source; md is the measure's
\* history (its last value) with Holt's answer for it
CarbonMeasureEntry(md) ==
    IF md.kind = "raise"
    THEN [error |-> md.msg, status |-> "Forecast failed"]
    ELSE LET pred          == IF IsNaAll(md.pred) THEN FillNa(md.pred, md.initial)
                              ELSE md.pred
             initial_value == md.initial
             final_value   == Last(pred)
         IN  [initial  |-> initial_value,
              forecast |-> final_value,
              change   |-> Sub(final_value, initial_value)]

\* source_forecast["measures"]: one entry per measure that is a column of the data
CarbonMeasures(src) ==
    [m \in { Measures[k] : k \in { k \in 1..Len(Measures) : src.measures[Measures[k]].kind # "nocol" } }
        |-> CarbonMeasureEntry(src.measures[m])]

\* lines 183-186: ecr_change, summed over the sequence ms from position k on
RECURSIVE EcrLoop(_, _, _, _)
EcrLoop(measures, ms, k, ecr_change) ==
    IF k > Len(ms) THEN ecr_change
    ELSE EcrLoop(measures, ms, k + 1,
             IF ms[k] \in DOMAIN measures
             THEN Add(ecr_change,
                      IF "change" \in DOMAIN measures[ms[k]] THEN measures[ms[k]].change ELSE 0)
             ELSE ecr_change)

CarbonSourceLevelMedium(ecr_change) ==
    IF Gt(ecr_change, 0) THEN "High" ELSE IF ecr_change = 0 THEN "Medium" ELSE "Low"

\* lines 191-195
CarbonSourceLevel(ecr_change) == IF Gt(ecr_change, 0) THEN "High" ELSE "Low"

\* lines 149-195: source_forecast of one source
SourceForecast(src) ==
    LET measures   == CarbonMeasures(src)
        ecr_change == EcrLoop(measures, ECRMeasures, 1, 0)
    IN  [source     |-> src.source,
         measures   |-> measures,
         ecr_change |-> ecr_change,
         risk_level |-> CarbonSourceLevel(ecr_change)]

RECURSIVE SourceLoopKeepFirst(_, _, _, _)
SourceLoopKeepFirst(country, srcs, j, acc) ==
    IF j > Len(srcs) THEN acc
    ELSE LET sf == SourceForecast(srcs[j])
         IN  SourceLoopKeepFirst(country, srcs, j + 1,
                 [high_risk_count |-> acc.high_risk_count
                                        + (IF sf.risk_level = "High" THEN 1 ELSE 0),
                  country_details |-> acc.country_details @@ (country :> sf)])

\* the loop over the sources of one country (lines 146-197), from position j on
RECURSIVE SourceLoop(_, _, _, _)
SourceLoop(country, srcs, j, acc) ==
    IF j > Len(srcs) THEN acc
    ELSE LET sf == SourceForecast(srcs[j])
         IN  SourceLoop(country, srcs, j + 1,
                 [high_risk_count |-> acc.high_risk_count
                                        + (IF sf.risk_level = "High" THEN 1 ELSE 0),
                  country_details |-> (country :> sf) @@ acc.country_details])

RECURSIVE CarbonLoopSkipNoData(_, _, _, _)
CarbonLoopSkipNoData(cs, data, i, acc) ==
    IF i > Len(cs) THEN acc
    ELSE LET country_df == data.area[cs[i]].sources
         IN  CarbonLoopSkipNoData(cs, data, i + 1,
                 IF country_df = << >>
                 THEN acc
                 ELSE SourceLoop(cs[i], country_df, 1, acc))

\* the loop over the countries (lines 128-197), from position i on
RECURSIVE CarbonLoop(_, _, _, _)
CarbonLoop(cs, data, i, acc) ==
    IF i > Len(cs) THEN acc
    ELSE LET country_df == data.area[cs[i]].sources    \* rows of the sector, by source
         IN  CarbonLoop(cs, data, i + 1,
                 IF country_df = << >>
                 THEN [acc EXCEPT !.country_details =
                          (cs[i] :> [status |-> "No data available", risk_level |-> "Unknown"]) @@ @]
                 ELSE SourceLoop(cs[i], country_df, 1, acc))

CarbonOverallAboveAll(high_risk_count, n) ==
    IF high_risk_count > n THEN "High" ELSE "Low"

CarbonOverallAtLeastHalf(high_risk_count, n) ==
    IF 2 * high_risk_count >= n THEN "High" ELSE "Low"

\* lines 200-203: high_risk_count > len(countries) / 2, a float division
CarbonOverall(high_risk_count, n) ==
    IF 2 * high_risk_count > n THEN "High" ELSE "Low"

CarbonFilteredEmptyAny(cs, data) ==
    \/ cs = << >>
    \/ \E i \in 1..Len(cs) : data.area[cs[i]].sources = << >> /\ ~data.area[cs[i]].other_sector

\* line 113-115: filtered_df is empty when no requested country has a row in any sector
CarbonFilteredEmpty(cs, data) ==
    \A i \in 1..Len(cs) : data.area[cs[i]].sources = << >> /\ ~data.area[cs[i]].other_sector

evaluate_carbon_price_risk(cs, data) ==
    IF ~data.readable
    THEN [overall_risk |-> "Unknown", error |-> data.msg]
    ELSE IF CarbonFilteredEmpty(cs, data)
    THEN [overall_risk |-> "Unknown",
          details |-> "No carbon pricing data available for specified countries"]
    ELSE LET end == CarbonLoop(cs, data, 1,
                        [high_risk_count |-> 0, country_details |-> << >>])
         IN  [overall_risk    |-> CarbonOverall(end.high_risk_count, Len(cs)),
              country_details |-> end.country_details]

----------------------------------------------------------------------------
(* evaluate_technology_risk *)

\* forecast_years
TechHorizon == 4

TechRiskLevelStrict(forecast) ==
    IF ~IsNaN(Last(forecast)) /\ ~IsNaN(forecast[Len(forecast) - 2])
       /\ Last(forecast) < forecast[Len(forecast) - 2]
    THEN "High" ELSE "Low"

\* lines 261-265: forecast.values[-1] <= forecast.values[-3]
TechRiskLevel(forecast) ==
    IF Le(Last(forecast), forecast[Len(forecast) - 2]) THEN "High" ELSE "Low"

TechEntryErrorHigh(d) ==
    IF d.kind = "absent"
    THEN [status |-> "No data available", risk_level |-> "Unknown"]
    ELSE IF d.kind = "empty"
    THEN [status |-> "Insufficient data", risk_level |-> "Unknown"]
    ELSE IF d.kind = "raise"
    THEN [status |-> "Error in forecasting: " \o d.msg, risk_level |-> "High"]
    ELSE LET risk_level == TechRiskLevel(d.forecast)
         IN  [status         |-> "Forecasted",
              risk_level     |-> risk_level,
              forecast_trend |-> IF risk_level = "High" THEN "Decreasing" ELSE "Increasing",
              current_value  |-> d.current,
              forecast_value |-> Last(d.forecast)]

\* the entry of one country: d is what the data holds for it
TechEntry(d) ==
    IF d.kind = "absent"
    THEN [status |-> "No data available", risk_level |-> "Unknown"]
    ELSE IF d.kind = "empty"
    THEN [status |-> "Insufficient data", risk_level |-> "Unknown"]
    ELSE IF d.kind = "raise"
    THEN [status |-> "Error in forecasting: " \o d.msg, risk_level |-> "Unknown"]
    ELSE LET risk_level == TechRiskLevel(d.forecast)
         IN  [status         |-> "Forecasted",
              risk_level     |-> risk_level,
              forecast_trend |-> IF risk_level = "High" THEN "Decreasing" ELSE "Increasing",
              current_value  |-> d.current,
              forecast_value |-> Last(d.forecast)]

\* the for loop of lines 233-282, from position i on
RECURSIVE TechLoop(_, _, _, _)
TechLoop(cs, data, i, acc) ==
    IF i > Len(cs) THEN acc
    ELSE LET e == TechEntry(data.cols[cs[i]])
         IN  TechLoop(cs, data, i + 1,
                 [high_risk_count |-> acc.high_risk_count
                                        + (IF e.risk_level = "High" THEN 1 ELSE 0),
                  country_details |-> (cs[i] :> e) @@ acc.country_details])

TechOverallOfKnown(high_risk_count, n) ==
    IF high_risk_count > 0 /\ 2 * high_risk_count >= n THEN "High" ELSE "Low"

\* lines 285-288: high_risk_count > len(countries) / 2, a float division
TechOverall(high_risk_count, n) ==
    IF 2 * high_risk_count > n THEN "High" ELSE "Low"

evaluate_technology_risk_reraise(cs, data) ==
    IF ~data.readable
    THEN [raised |-> data.msg]
    ELSE LET end == TechLoop(cs, data, 1,
                        [high_risk_count |-> 0, country_details |-> << >>])
         IN  [overall_risk    |-> TechOverall(end.high_risk_count, Len(cs)),
              country_details |-> end.country_details]

\* lines 219-293: the body is one try block; its handler (291-293) returns
evaluate_technology_risk(cs, data) ==
    IF ~data.readable
    THEN [overall_risk |-> "Unknown", error |-> data.msg]
    ELSE LET end == TechLoop(cs, data, 1,
                        [high_risk_count |-> 0, country_details |-> << >>])
         IN  [overall_risk    |-> TechOverall(end.high_risk_count, Len(cs)),
              country_details |-> end.country_details]

----------------------------------------------------------------------------
(* The data the evaluators read *)

\* longest list of sources of one country in the aggregation data
MaxSources == 2

\* current is the last observed value of the series (1.0 degree in every series here)
ClimateRow(kind, forecast) ==
    [kind |-> kind, current |-> 100, forecast |-> forecast, msg |-> "holt"]
ClimateFile(area) == [readable |-> TRUE, msg |-> "", area |-> area]
ClimateAbsent == ClimateRow("absent", << >>)

\* final forecasts of the classification grid: every hundredth up to GridMax, 10.0, NaN
GridPoints == (0..GridMax) \cup {1000, NaN}

\* A and B forecast the same final value after different earlier periods
ClimateGridData ==
    { ClimateFile([c \in Names |->
          IF c = "A" THEN ClimateRow("ok", << p, p, v >>)
          ELSE IF c = "B" THEN ClimateRow("ok", << 400 - p, 400 - p, v >>)
          ELSE ClimateAbsent]) : p \in {100, 300}, v \in GridPoints }

ClimateCoarseRows ==
    { ClimateAbsent, ClimateRow("allnull", << >>), ClimateRow("raise", << >>) }
    \cup { ClimateRow("ok", << 100, 100, v >>) : v \in {100, 155, 200, 300} }
    \cup { ClimateRow("ok", << NaN, NaN, NaN >>) }

ClimateUnreadable ==
    [readable |-> FALSE, msg |-> "No such file", area |-> [c \in Names |-> ClimateAbsent]]

ClimateData ==
    ClimateGridData \cup { ClimateFile(area) : area \in [Names -> ClimateCoarseRows] }
                    \cup { ClimateUnreadable }

MeasureRow(kind, initial, pred) == [kind |-> kind, initial |-> initial, pred |-> pred, msg |-> "holt"]
Forecast4(initial, delta) == << initial, initial, initial, initial + delta >>
AllNaN4 == << NaN, NaN, NaN, NaN >>

\* what one measure of one source can be: forecast with a delta, Holt raising, an
\* all-NaN forecast
MeasureChoices ==
    { MeasureRow("ok", 10, Forecast4(10, d)) : d \in {0 - 5, 0, 1, 2} }
    \cup { MeasureRow("raise", 10, << >>), MeasureRow("ok", 10, AllNaN4) }
SubsidChoices ==
    { MeasureRow("ok", 10, Forecast4(10, d)) : d \in {0 - 5, 2} }
    \cup { MeasureRow("raise", 10, << >>) }

SourceRow(name, measures) == [source |-> name, measures |-> measures]
CarbonCountry(sources, other) == [sources |-> sources, other_sector |-> other]
CarbonAbsent == CarbonCountry(<< >>, FALSE)
CarbonFile(area) == [readable |-> TRUE, msg |-> "", area |-> area]

\* one country with one source, every measure varying
CarbonMeasureData ==
    { CarbonFile([c \in Names |->
          IF c = "A"
          THEN CarbonCountry(<< SourceRow("s1",
                   [m \in {"FUETAX", "CARBTAX", "MPERPRI", "SUBSID"} |->
                       IF m = "FUETAX" THEN f ELSE IF m = "CARBTAX" THEN t
                       ELSE IF m = "MPERPRI" THEN p ELSE s]) >>, FALSE)
          ELSE CarbonAbsent])
      : f \in MeasureChoices, t \in MeasureChoices, p \in MeasureChoices, s \in SubsidChoices }

\* a source whose carbon tax moves by d and nothing else moves
ProfileSource(name, d) ==
    SourceRow(name, [m \in {"FUETAX", "CARBTAX", "MPERPRI", "SUBSID"} |->
                        MeasureRow("ok", 10, Forecast4(10, IF m = "CARBTAX" THEN d ELSE 0))])

\* the rows of one country in the selected sector: up to MaxSources sources, each
\* rising (d = 2) or falling (d = -5)
SourceLists ==
    UNION { { [j \in 1..n |-> ProfileSource(IF j = 1 THEN "s1" ELSE IF j = 2 THEN "s2" ELSE "s3", ds[j])]
              : ds \in [1..n -> {2, 0 - 5}] } : n \in 1..MaxSources }

CarbonCoarseCountries ==
    { CarbonAbsent, CarbonCountry(<< >>, TRUE) }
    \cup { CarbonCountry(srcs, o) : srcs \in SourceLists, o \in {FALSE} }

\* A and B vary, C has no row
CarbonCoarseData ==
    { CarbonFile([c \in Names |-> IF c = "A" THEN a ELSE IF c = "B" THEN b ELSE CarbonAbsent])
      : a \in CarbonCoarseCountries, b \in CarbonCoarseCountries }

CarbonUnreadable ==
    [readable |-> FALSE, msg |-> "No such file", area |-> [c \in Names |-> CarbonAbsent]]

CarbonData == CarbonMeasureData \cup CarbonCoarseData \cup { CarbonUnreadable }

TechRow(kind, current, forecast) ==
    [kind |-> kind, current |-> current, forecast |-> forecast, msg |-> "holt"]
TechAbsent == TechRow("absent", 0, << >>)
TechFile(cols) == [readable |-> TRUE, msg |-> "", cols |-> cols]

\* one country, the forecast varying in its last three periods
TechForecastData ==
    { TechFile([c \in Names |->
          IF c = "A" THEN TechRow("ok", 6, << 6, a, b, last >>) ELSE TechAbsent])
      : a \in {5, 6, 7, NaN}, b \in {5, 7}, last \in {5, 6, 7, NaN} }

TechCoarseRows ==
    { TechAbsent, TechRow("empty", 0, << >>), TechRow("raise", 6, << >>) }
    \cup { TechRow("ok", 6, << 6, 6, 6, last >>) : last \in {5, 6, 7} }
    \cup { TechRow("ok", 6, AllNaN4) }

TechUnreadable ==
    [readable |-> FALSE, msg |-> "No such file", cols |-> [c \in Names |-> TechAbsent]]

TechData ==
    TechForecastData \cup { TechFile(cols) : cols \in [Names -> TechCoarseRows] }
                     \cup { TechUnreadable }

----------------------------------------------------------------------------
(* run_comprehensive_risk_assessment *)

\* longest country list handed to run_comprehensive_risk_assessment
MaxArgs == 1
\* days that pass while the model runs
MaxDay == 1

\* json.dump writes the top-level keys of the bundle in their insertion order
KeyOrder == << "climate_risk", "carbon_price_risk", "technology_risk",
               "timestamp", "evaluated_countries" >>

\* the text json.dump produces for a bundle, as the chunks it writes one by one
Serialize(bundle) == [k \in 1..Len(KeyOrder) |-> << KeyOrder[k], bundle[KeyOrder[k]] >>]

\* json.load of a file content: defined only for a complete text
Complete(content) ==
    Len(content) = Len(KeyOrder) /\ \A k \in 1..Len(KeyOrder) : content[k][1] = KeyOrder[k]
Parse(content) ==
    [key \in { content[k][1] : k \in 1..Len(content) } |->
        content[CHOOSE k \in 1..Len(content) : content[k][1] = key][2] ]

NoFile == [exists |-> FALSE, content |-> << >>]
NoBundle == [none |-> TRUE]

\* lines 300-305 and 324-329: the degraded bundle
Degraded(message) ==
    [error             |-> message,
     climate_risk      |-> [overall_risk |-> "Unknown"],
     carbon_price_risk |-> [overall_risk |-> "Unknown"],
     technology_risk   |-> [overall_risk |-> "Unknown"]]

FalsyNever(cs) == FALSE

\* line 299: `not countries`
Falsy(cs) == Len(cs) = 0

CallTruncating(cs) ==
    /\ pc = "idle"
    /\ countries' = cs
    /\ invoked' = {}
    /\ failed_step' = "none"
    /\ IF Falsy(cs)
       THEN /\ returned' = Degraded("No countries specified for risk assessment")
            /\ pc' = "idle"
            /\ file' = [exists |-> TRUE, content |-> << >>]
       ELSE /\ returned' = NoBundle
            /\ pc' = "climate"
            /\ file' = file
    /\ results' = NoBundle
    /\ UNCHANGED << backend, holt_series, previous, callers, climate_data, carbon_data, tech_data, climate_ret, carbon_ret,
                    tech_ret, dir_exists, today, last_good >>

\* the call: the early return of lines 299-305, or entry into the try block
Call(cs) ==
    /\ pc = "idle"
    /\ countries' = cs
    /\ invoked' = {}
    /\ failed_step' = "none"
    /\ IF Falsy(cs)
       THEN /\ returned' = Degraded("No countries specified for risk assessment")
            /\ pc' = "idle"
       ELSE /\ returned' = NoBundle
            /\ pc' = "climate"
    /\ results' = NoBundle
    /\ UNCHANGED << backend, holt_series, previous, callers, climate_data, carbon_data, tech_data, climate_ret, carbon_ret,
                    tech_ret, file, dir_exists, today, last_good >>

\* line 309
EvalClimate ==
    /\ pc = "climate"
    /\ climate_ret' = evaluate_climate_risk(countries, climate_data)
    /\ invoked' = invoked \cup {"climate"}
    /\ pc' = "carbon"
    /\ UNCHANGED << backend, holt_series, previous, callers, climate_data, carbon_data, tech_data, countries, carbon_ret, tech_ret,
                    results, returned, file, dir_exists, today, failed_step, last_good >>

\* line 310
EvalCarbon ==
    /\ pc = "carbon"
    /\ carbon_ret' = evaluate_carbon_price_risk(countries, carbon_data)
    /\ invoked' = invoked \cup {"carbon"}
    /\ pc' = "technology"
    /\ UNCHANGED << backend, holt_series, previous, callers, climate_data, carbon_data, tech_data, countries, climate_ret, tech_ret,
                    results, returned, file, dir_exists, today, failed_step, last_good >>

\* line 311
EvalTechnology ==
    /\ pc = "technology"
    /\ tech_ret' = evaluate_technology_risk(countries, tech_data)
    /\ invoked' = invoked \cup {"technology"}
    /\ pc' = "assemble"
    /\ UNCHANGED << backend, holt_series, previous, callers, climate_data, carbon_data, tech_data, countries, climate_ret, carbon_ret,
                    results, returned, file, dir_exists, today, failed_step, last_good >>

\* lines 308-314: the bundle, with the date of the moment
Assemble ==
    /\ pc = "assemble"
    /\ results' = [climate_risk        |-> climate_ret,
                   carbon_price_risk   |-> carbon_ret,
                   technology_risk     |-> tech_ret,
                   timestamp           |-> today,
                   evaluated_countries |-> countries]
    /\ pc' = "mkdir"
    /\ UNCHANGED << backend, holt_series, previous, callers, climate_data, carbon_data, tech_data, countries, climate_ret, carbon_ret,
                    tech_ret, returned, file, dir_exists, today, invoked, failed_step,
                    last_good >>

\* line 317: mkdir(parents=True, exist_ok=True) creates the directory, or raises
\* (it cannot be created); it does nothing when the directory exists
Mkdir ==
    /\ pc = "mkdir"
    /\ \/ /\ dir_exists' = TRUE
          /\ pc' = "open"
          /\ UNCHANGED failed_step
       \/ /\ ~dir_exists
          /\ dir_exists' = dir_exists
          /\ pc' = "except"
          /\ failed_step' = "mkdir"
    /\ UNCHANGED << backend, holt_series, previous, callers, climate_data, carbon_data, tech_data, countries, climate_ret, carbon_ret,
                    tech_ret, results, returned, file, today, invoked, last_good >>

\* line 318: open(path, "w") creates the file or truncates it, or raises and leaves it
Open ==
    /\ pc = "open"
    /\ \/ /\ file' = [exists |-> TRUE, content |-> << >>]
          /\ pc' = "dump"
          /\ UNCHANGED failed_step
       \/ /\ file' = file
          /\ pc' = "except"
          /\ failed_step' = "open"
    /\ UNCHANGED << backend, holt_series, previous, callers, climate_data, carbon_data, tech_data, countries, climate_ret, carbon_ret,
                    tech_ret, results, returned, dir_exists, today, invoked, last_good >>

\* line 319: json.dump writes the text chunk by chunk; a write may raise (the disk
\* is full, the device fails), and the chunks written before stay in the file
Dump ==
    /\ pc = "dump"
    /\ \/ /\ file' = [exists |-> TRUE, content |-> Serialize(results)]
          /\ pc' = "return"
          /\ UNCHANGED failed_step
       \/ \E k \in 0..(Len(KeyOrder) - 1) :
             /\ file' = [exists |-> TRUE, content |-> SubSeq(Serialize(results), 1, k)]
             /\ pc' = "except"
             /\ failed_step' = "dump"
    /\ UNCHANGED << backend, holt_series, previous, callers, climate_data, carbon_data, tech_data, countries, climate_ret, carbon_ret,
                    tech_ret, results, returned, dir_exists, today, invoked, last_good >>

\* the locals of the call are gone once it has returned
Forget ==
    /\ results' = NoBundle
    /\ climate_ret' = NotEvaluated /\ carbon_ret' = NotEvaluated /\ tech_ret' = NotEvaluated

\* line 321
Return ==
    /\ pc = "return"
    /\ returned' = results
    /\ last_good' = results
    /\ pc' = "idle"
    /\ Forget
    /\ UNCHANGED << backend, holt_series, previous, callers, climate_data, carbon_data, tech_data, countries, file, dir_exists,
                    today, invoked, failed_step >>

ExceptOSErrorOnly ==
    /\ pc = "except"
    /\ IF failed_step \in {"mkdir", "open"}
       THEN returned' = Degraded(failed_step) /\ pc' = "idle"
       ELSE returned' = returned /\ pc' = "raised"
    /\ Forget
    /\ UNCHANGED << backend, holt_series, previous, callers, climate_data, carbon_data, tech_data, countries, file, dir_exists,
                    today, invoked, failed_step, last_good >>

\* lines 322-329: the except clause of the try block
Except ==
    /\ pc = "except"
    /\ returned' = Degraded(failed_step)
    /\ pc' = "idle"
    /\ Forget
    /\ UNCHANGED << backend, holt_series, previous, callers, climate_data, carbon_data, tech_data, countries, file, dir_exists,
                    today, invoked, failed_step, last_good >>

\* a day passes between two calls (the date is read once per call, line 312)
Tick ==
    /\ pc = "idle"
    /\ today < MaxDay
    /\ today' = today + 1
    /\ UNCHANGED << backend, holt_series, previous, callers, climate_data, carbon_data, tech_data, countries, climate_ret, carbon_ret,
                    tech_ret, pc, results, returned, file, dir_exists, invoked, failed_step,
                    last_good >>

\* the data of the assessment runs: every country is missing from all three
\* files, or is in all three with one of two profiles
Profile(c, w) ==
    IF w = 0 THEN [climate |-> ClimateAbsent, carbon |-> CarbonAbsent, tech |-> TechAbsent]
    ELSE IF w = 1
    THEN [climate |-> ClimateRow("ok", << 100, 100, 100 >>),
          carbon  |-> CarbonCountry(<< ProfileSource("s1", 2) >>, FALSE),
          tech    |-> TechRow("ok", 6, << 6, 6, 6, 7 >>)]
    ELSE [climate |-> ClimateRow("ok", << 100, 200, 300 >>),
          carbon  |-> CarbonCountry(<< ProfileSource("s1", 2), ProfileSource("s2", 0 - 5) >>, FALSE),
          tech    |-> TechRow("raise", 6, << >>)]

Worlds ==
    { w \in [Names -> 0..2] :
        /\ w["C"] = 0
        /\ \/ (w["A"] = 1 /\ w["B"] = 2)
           \/ (w["A"] = 2 /\ w["B"] = 0) }

NoPrevious == [none |-> TRUE]
NoSeries == [none |-> TRUE]
NoBackend == [none |-> TRUE]
NoCallers == << >>

RunIdle ==
    /\ countries = << >>
    /\ climate_ret = NotEvaluated /\ carbon_ret = NotEvaluated /\ tech_ret = NotEvaluated
    /\ pc = "idle"
    /\ results = NoBundle /\ returned = NoBundle /\ last_good = NoBundle
    /\ file = NoFile /\ dir_exists = FALSE
    /\ today = 0
    /\ invoked = {}
    /\ failed_step = "none"
    /\ previous = NoPrevious
    /\ callers = NoCallers
    /\ holt_series = NoSeries
    /\ backend = NoBackend

Init ==
    /\ \E w \in Worlds :
          /\ climate_data \in { ClimateFile([c \in Names |-> Profile(c, w[c]).climate]),
                                ClimateUnreadable }
          /\ carbon_data = CarbonFile([c \in Names |-> Profile(c, w[c]).carbon])
          /\ tech_data = TechFile([c \in Names |-> Profile(c, w[c]).tech])
    /\ RunIdle

Next ==
    \/ \E cs \in Lists(MaxArgs) : Call(cs)
    \/ EvalClimate
    \/ EvalCarbon
    \/ EvalTechnology
    \/ Assemble
    \/ Mkdir
    \/ Open
    \/ Dump
    \/ Return
    \/ Except
    \/ Tick

Spec == Init /\ [][Next]_vars

----------------------------------------------------------------------------
(* The domain evaluators called on their own, over the full data sets: one call *)
(* per behaviour, on any list                                              *)

NoClimateData == ClimateFile([c \in Names |-> ClimateAbsent])
NoCarbonData == CarbonFile([c \in Names |-> CarbonAbsent])
NoTechData == TechFile([c \in Names |-> TechAbsent])

ClimateCall(cs) ==
    /\ climate_ret = NotEvaluated
    /\ countries' = cs
    /\ climate_ret' = evaluate_climate_risk(cs, climate_data)
    /\ UNCHANGED << backend, holt_series, previous, callers, climate_data, carbon_data, tech_data, carbon_ret, tech_ret, pc, results,
                    returned, file, dir_exists, today, invoked, failed_step, last_good >>

CarbonCall(cs) ==
    /\ carbon_ret = NotEvaluated
    /\ countries' = cs
    /\ carbon_ret' = evaluate_carbon_price_risk(cs, carbon_data)
    /\ UNCHANGED << backend, holt_series, previous, callers, climate_data, carbon_data, tech_data, climate_ret, tech_ret, pc, results,
                    returned, file, dir_exists, today, invoked, failed_step, last_good >>

TechCall(cs) ==
    /\ tech_ret = NotEvaluated
    /\ countries' = cs
    /\ tech_ret' = evaluate_technology_risk(cs, tech_data)
    /\ UNCHANGED << backend, holt_series, previous, callers, climate_data, carbon_data, tech_data, climate_ret, carbon_ret, pc, results,
                    returned, file, dir_exists, today, invoked, failed_step, last_good >>

InitClimate ==
    /\ climate_data \in ClimateData
    /\ carbon_data = NoCarbonData
    /\ tech_data = NoTechData
    /\ RunIdle

InitCarbon ==
    /\ climate_data = NoClimateData
    /\ carbon_data \in CarbonData
    /\ tech_data = NoTechData
    /\ RunIdle

InitTech ==
    /\ climate_data = NoClimateData
    /\ carbon_data = NoCarbonData
    /\ tech_data \in TechData
    /\ RunIdle

NextClimate == \E cs \in Lists(MaxCountries) : ClimateCall(cs)
NextCarbon == \E cs \in Lists(MaxCountries) : CarbonCall(cs)
NextTech == \E cs \in Lists(MaxCountries) : TechCall(cs)

SpecClimate == InitClimate /\ [][NextClimate]_vars
SpecCarbon == InitCarbon /\ [][NextCarbon]_vars
SpecTech == InitTech /\ [][NextTech]_vars

----------------------------------------------------------------------------
(* The three evaluators called on one list, as lines 310-312 call them,     *)
(* and called a second time on the same list over the same data            *)

Evaluated ==
    /\ climate_ret # NotEvaluated /\ carbon_ret # NotEvaluated /\ tech_ret # NotEvaluated

EvaluateAllInPlace(cs) ==
    /\ climate_ret = NotEvaluated /\ carbon_ret = NotEvaluated /\ tech_ret = NotEvaluated
    /\ countries' = cs
    /\ climate_ret' = evaluate_climate_risk(cs, climate_data)
    /\ carbon_ret' = evaluate_carbon_price_risk(cs, carbon_data)
    /\ tech_ret' = evaluate_technology_risk(cs, tech_data)
    /\ climate_data' = [climate_data EXCEPT
                           !.area = [c \in Names |-> IF \E i \in 1..Len(cs) : cs[i] = c
                                                     THEN ClimateAbsent ELSE @[c]]]
    /\ UNCHANGED << backend, holt_series, previous, callers, carbon_data, tech_data, pc, results, returned, file,
                    dir_exists, today, invoked, failed_step, last_good >>

\* each evaluator reads its file anew (lines 26, 108, 221) and writes nothing
EvaluateAll(cs) ==
    /\ climate_ret = NotEvaluated /\ carbon_ret = NotEvaluated /\ tech_ret = NotEvaluated
    /\ countries' = cs
    /\ climate_ret' = evaluate_climate_risk(cs, climate_data)
    /\ carbon_ret' = evaluate_carbon_price_risk(cs, carbon_data)
    /\ tech_ret' = evaluate_technology_risk(cs, tech_data)
    /\ UNCHANGED << backend, holt_series, previous, callers, climate_data, carbon_data, tech_data, pc, results,
                    returned, file, dir_exists, today, invoked, failed_step, last_good >>

\* the second call, on the list of the first
EvaluateAgain ==
    /\ Evaluated
    /\ previous = NoPrevious
    /\ previous' = [climate_risk |-> climate_ret, carbon_price_risk |-> carbon_ret,
                    technology_risk |-> tech_ret]
    /\ climate_ret' = evaluate_climate_risk(countries, climate_data)
    /\ carbon_ret' = evaluate_carbon_price_risk(countries, carbon_data)
    /\ tech_ret' = evaluate_technology_risk(countries, tech_data)
    /\ UNCHANGED << backend, holt_series, callers, climate_data, carbon_data, tech_data, countries, pc, results,
                    returned, file, dir_exists, today, invoked, failed_step, last_good >>

\* the three files holding the same kind of series for a country: no row, a
\* series Holt raises on, one whose forecast is all NaN, a rising one, a flat one
JointKinds == {"absent", "raise", "nan", "rising", "flat"}

JointSource(row) ==
    SourceRow("s1", [m \in {"FUETAX", "CARBTAX", "MPERPRI", "SUBSID"} |-> row])

JointProfile(k) ==
    IF k = "absent"
    THEN [climate |-> ClimateAbsent, carbon |-> CarbonAbsent, tech |-> TechAbsent]
    ELSE IF k = "raise"
    THEN [climate |-> ClimateRow("raise", << >>),
          carbon  |-> CarbonCountry(<< JointSource(MeasureRow("raise", 10, << >>)) >>, FALSE),
          tech    |-> TechRow("raise", 6, << >>)]
    ELSE IF k = "nan"
    THEN [climate |-> ClimateRow("ok", << NaN, NaN, NaN >>),
          carbon  |-> CarbonCountry(<< JointSource(MeasureRow("ok", 10, AllNaN4)) >>, FALSE),
          tech    |-> TechRow("ok", 6, AllNaN4)]
    ELSE IF k = "rising"
    THEN [climate |-> ClimateRow("ok", << 100, 200, 300 >>),
          carbon  |-> CarbonCountry(<< JointSource(MeasureRow("ok", 10, Forecast4(10, 2))) >>, FALSE),
          tech    |-> TechRow("ok", 6, << 6, 6, 6, 7 >>)]
    ELSE [climate |-> ClimateRow("ok", << 100, 100, 100 >>),
          carbon  |-> CarbonCountry(<< JointSource(MeasureRow("ok", 10, Forecast4(10, 0))) >>, FALSE),
          tech    |-> TechRow("ok", 6, << 6, 6, 6, 6 >>)]

InitJoint ==
    /\ \E k \in [Names -> JointKinds] :
          /\ climate_data = ClimateFile([c \in Names |-> JointProfile(k[c]).climate])
          /\ carbon_data = CarbonFile([c \in Names |-> JointProfile(k[c]).carbon])
          /\ tech_data = TechFile([c \in Names |-> JointProfile(k[c]).tech])
    /\ RunIdle

\* none of the three files can be read
InitUnreadable ==
    /\ climate_data = ClimateUnreadable
    /\ carbon_data = CarbonUnreadable
    /\ tech_data = TechUnreadable
    /\ RunIdle

\* one file holding any combination of the coarse rows, the other two files
\* without the requested countries
InitCoarse ==
    /\ \/ /\ climate_data \in { ClimateFile(area) : area \in [Names -> ClimateCoarseRows] }
          /\ carbon_data = NoCarbonData
          /\ tech_data = NoTechData
       \/ /\ climate_data = NoClimateData
          /\ carbon_data \in CarbonCoarseData
          /\ tech_data = NoTechData
       \/ /\ climate_data = NoClimateData
          /\ carbon_data = NoCarbonData
          /\ tech_data \in { TechFile(cols) : cols \in [Names -> TechCoarseRows] }
    /\ RunIdle

InitEval == InitCoarse \/ InitJoint \/ InitUnreadable

NextEval ==
    \/ \E cs \in Lists(MaxCountries) : EvaluateAll(cs)
    \/ EvaluateAgain

SpecEval == InitEval /\ [][NextEval]_vars

----------------------------------------------------------------------------
(* The three evaluators called on a list, then on one of its countries alone, *)
(* the data unchanged                                                         *)

\* the second call: the three evaluators on the list [c], c a country of the
\* first list
EvaluateAlone(c) ==
    /\ Evaluated
    /\ previous = NoPrevious
    /\ \E i \in 1..Len(countries) : countries[i] = c
    /\ previous' = [climate_risk |-> climate_ret, carbon_price_risk |-> carbon_ret,
                    technology_risk |-> tech_ret, countries |-> countries]
    /\ countries' = << c >>
    /\ climate_ret' = evaluate_climate_risk(<< c >>, climate_data)
    /\ carbon_ret' = evaluate_carbon_price_risk(<< c >>, carbon_data)
    /\ tech_ret' = evaluate_technology_risk(<< c >>, tech_data)
    /\ UNCHANGED << backend, holt_series, callers, climate_data, carbon_data, tech_data, pc, results,
                    returned, file, dir_exists, today, invoked, failed_step, last_good >>

NextAlone ==
    \/ \E cs \in Lists(MaxCountries) : EvaluateAll(cs)
    \/ \E c \in Names : EvaluateAlone(c)

SpecAlone == InitEval /\ [][NextAlone]_vars

----------------------------------------------------------------------------
(* The three evaluations of lines 309-311 taken in any order, twice over on  *)
(* the same list: here invoked is the sequence of the evaluators run so far  *)

EvaluatorNames == {"climate", "carbon", "technology"}
Ran(name) == \E k \in 1..Len(invoked) : invoked[k] = name

RunClimateInPlace ==
    /\ ~Ran("climate")
    /\ climate_ret' = evaluate_climate_risk(countries, climate_data)
    /\ invoked' = Append(invoked, "climate")
    /\ countries' = SubSeq(countries, 1, Len(countries) - 1)
    /\ UNCHANGED << backend, holt_series, previous, callers, climate_data, carbon_data, tech_data, carbon_ret,
                    tech_ret, pc, results, returned, file, dir_exists, today, failed_step,
                    last_good >>

\* line 309, whenever it comes
RunClimate ==
    /\ ~Ran("climate")
    /\ climate_ret' = evaluate_climate_risk(countries, climate_data)
    /\ invoked' = Append(invoked, "climate")
    /\ UNCHANGED << backend, holt_series, previous, callers, climate_data, carbon_data, tech_data, countries,
                    carbon_ret, tech_ret, pc, results, returned, file, dir_exists, today,
                    failed_step, last_good >>

\* line 310, whenever it comes
RunCarbon ==
    /\ ~Ran("carbon")
    /\ carbon_ret' = evaluate_carbon_price_risk(countries, carbon_data)
    /\ invoked' = Append(invoked, "carbon")
    /\ UNCHANGED << backend, holt_series, previous, callers, climate_data, carbon_data, tech_data, countries,
                    climate_ret, tech_ret, pc, results, returned, file, dir_exists, today,
                    failed_step, last_good >>

\* line 311, whenever it comes
RunTechnology ==
    /\ ~Ran("technology")
    /\ tech_ret' = evaluate_technology_risk(countries, tech_data)
    /\ invoked' = Append(invoked, "technology")
    /\ UNCHANGED << backend, holt_series, previous, callers, climate_data, carbon_data, tech_data, countries,
                    climate_ret, carbon_ret, pc, results, returned, file, dir_exists, today,
                    failed_step, last_good >>

\* the three parts of the first round are kept, and a second round begins
SecondRound ==
    /\ Len(invoked) = Cardinality(EvaluatorNames)
    /\ previous = NoPrevious
    /\ previous' = [climate_risk |-> climate_ret, carbon_price_risk |-> carbon_ret,
                    technology_risk |-> tech_ret, order |-> invoked,
                    countries |-> countries]
    /\ climate_ret' = NotEvaluated /\ carbon_ret' = NotEvaluated /\ tech_ret' = NotEvaluated
    /\ invoked' = << >>
    /\ UNCHANGED << backend, holt_series, callers, climate_data, carbon_data, tech_data, countries, pc, results,
                    returned, file, dir_exists, today, failed_step, last_good >>

InitOrder ==
    /\ \E k \in [Names -> JointKinds] :
          /\ climate_data = ClimateFile([c \in Names |-> JointProfile(k[c]).climate])
          /\ carbon_data = CarbonFile([c \in Names |-> JointProfile(k[c]).carbon])
          /\ tech_data = TechFile([c \in Names |-> JointProfile(k[c]).tech])
    /\ countries \in Lists(MaxArgs)
    /\ climate_ret = NotEvaluated /\ carbon_ret = NotEvaluated /\ tech_ret = NotEvaluated
    /\ pc = "idle"
    /\ results = NoBundle /\ returned = NoBundle /\ last_good = NoBundle
    /\ file = NoFile /\ dir_exists = FALSE
    /\ today = 0
    /\ invoked = << >>
    /\ failed_step = "none"
    /\ previous = NoPrevious
    /\ callers = NoCallers
    /\ holt_series = NoSeries
    /\ backend = NoBackend

NextOrder ==
    \/ RunClimate
    \/ RunCarbon
    \/ RunTechnology
    \/ SecondRound

SpecOrder == InitOrder /\ [][NextOrder]_vars

----------------------------------------------------------------------------
(* What each evaluator does to a historical series before it fits Holt to it *)

\* longest historical series
MaxLen == 3

\* float('inf') and -float('inf')
PosInf == 1000000 + 1000000
NegInf == 0 - PosInf
IsInf(x) == x = PosInf \/ x = NegInf

\* the observations a series can hold: 1.0, 2.0, a missing value, the infinities
Observations == {100, 200, NaN, PosInf, NegInf}
RawSeries == UNION { [1..n -> Observations] : n \in 1..MaxLen }

\* Series.fillna(method='ffill'): a missing value takes the last value before it
\* that is not missing; with none before it, it stays missing
RECURSIVE Ffill(_)
Ffill(series) ==
    IF series = << >> THEN << >>
    ELSE LET n    == Len(series)
             head == Ffill(SubSeq(series, 1, n - 1))
         IN  Append(head, IF IsNaN(series[n]) /\ n > 1 THEN head[n - 1] ELSE series[n])

\* Series.replace([inf, -inf], 0)
ReplaceInf(series) == [k \in 1..Len(series) |-> IF IsInf(series[k]) THEN 0 ELSE series[k]]

\* Series.dropna()
DropNa(series) == SelectSeq(series, LAMBDA x : ~IsNaN(x))

\* lines 45-57: forward fill, infinities to 0, no fit when every value is null
PrepareClimate ==
    /\ holt_series.evaluator = "none"
    /\ LET country_values == ReplaceInf(Ffill(holt_series.raw))
       IN  holt_series' =
               [holt_series EXCEPT !.evaluator = "climate",
                                   !.handed = country_values,
                                   !.fitted = ~(\A k \in 1..Len(country_values) :
                                                   IsNaN(country_values[k]))]
    /\ UNCHANGED << backend, previous, callers, climate_data, carbon_data, tech_data, countries,
                    climate_ret, carbon_ret, tech_ret, pc, results, returned, file,
                    dir_exists, today, invoked, failed_step, last_good >>

\* lines 153-157: the column of the measure as it is
PrepareCarbon ==
    /\ holt_series.evaluator = "none"
    /\ holt_series' = [holt_series EXCEPT !.evaluator = "carbon",
                                          !.handed = holt_series.raw,
                                          !.fitted = TRUE]
    /\ UNCHANGED << backend, previous, callers, climate_data, carbon_data, tech_data, countries,
                    climate_ret, carbon_ret, tech_ret, pc, results, returned, file,
                    dir_exists, today, invoked, failed_step, last_good >>

\* lines 242-257: the missing values dropped, no fit when nothing is left
PrepareTech ==
    /\ holt_series.evaluator = "none"
    /\ LET country_data == DropNa(holt_series.raw)
       IN  holt_series' = [holt_series EXCEPT !.evaluator = "technology",
                                              !.handed = country_data,
                                              !.fitted = country_data # << >>]
    /\ UNCHANGED << backend, previous, callers, climate_data, carbon_data, tech_data, countries,
                    climate_ret, carbon_ret, tech_ret, pc, results, returned, file,
                    dir_exists, today, invoked, failed_step, last_good >>

InitSeries ==
    /\ climate_data = NoClimateData
    /\ carbon_data = NoCarbonData
    /\ tech_data = NoTechData
    /\ countries = << >>
    /\ climate_ret = NotEvaluated /\ carbon_ret = NotEvaluated /\ tech_ret = NotEvaluated
    /\ pc = "idle"
    /\ results = NoBundle /\ returned = NoBundle /\ last_good = NoBundle
    /\ file = NoFile /\ dir_exists = FALSE
    /\ today = 0
    /\ invoked = {}
    /\ failed_step = "none"
    /\ previous = NoPrevious
    /\ callers = NoCallers
    /\ \E raw \in RawSeries :
          holt_series = [raw |-> raw, evaluator |-> "none", handed |-> << >>,
                         fitted |-> FALSE]
    /\ backend = NoBackend

NextSeries ==
    \/ PrepareClimate
    \/ PrepareCarbon
    \/ PrepareTech

SpecSeries == InitSeries /\ [][NextSeries]_vars

----------------------------------------------------------------------------
(* src/backend_api.py: the /generate-pathway endpoint *)

Companies == {"X", "Y"}

\* lines 474-475: the relative path of the pathway HTML of a company
RelativePath(company_name) == "visualizations/" \o company_name \o "_pathway.html"

\* the enhanced CSV: no file, or its rows by company name
NoCsv == [exists |-> FALSE, rows |-> << >>]
InCsv(csv, company_name) == \E k \in 1..Len(csv.rows) : csv.rows[k] = company_name

NoResponse == [none |-> TRUE]

\* what generate_recommendations_and_get_path does for company_name when
\* get_recommendations, if it is called, ends as gen says: it saves the HTML
\* file, returns without the file, or raises.  The result: the HTML files
\* afterwards, and the record of the call (lines 458-521).
PathwayCall(b, company_name, gen) ==
    LET call(response, g) ==
            [company |-> company_name, existed |-> company_name \in b.html,
             client |-> b.client, response |-> response, gen |-> g]
    IN  IF ~b.client                                           \* lines 465-467
        THEN [html |-> b.html, last |-> call([raised |-> "RuntimeError"], "none")]
        ELSE IF company_name \in b.html                        \* lines 477-479
        THEN [html |-> b.html, last |-> call([path |-> RelativePath(company_name)], "none")]
        ELSE IF ~b.csv.exists                                  \* lines 484-486
        THEN [html |-> b.html, last |-> call([raised |-> "FileNotFoundError"], "none")]
        ELSE IF ~InCsv(b.csv, company_name)                    \* lines 494-496
        THEN [html |-> b.html, last |-> call([raised |-> "ValueError"], "none")]
        ELSE IF gen = "raised"                                 \* lines 503, 515-521
        THEN [html |-> b.html, last |-> call([raised |-> "RuntimeError"], gen)]
        ELSE IF gen = "saved"                                  \* lines 503-513
        THEN [html |-> b.html \cup {company_name},
              last |-> call([path |-> RelativePath(company_name)], gen)]
        ELSE [html |-> b.html,                                 \* lines 507-510
              last |-> call([raised |-> "FileNotFoundError"], gen)]

\* a /generate-pathway request, handled to its end
GeneratePathway(company_name) ==
    /\ \E gen \in {"saved", "missing", "raised"} :
          LET after == PathwayCall(backend, company_name, gen)
          IN  backend' = [backend EXCEPT !.html = after.html, !.last = after.last]
    /\ UNCHANGED << holt_series, previous, callers, climate_data, carbon_data, tech_data,
                    countries, climate_ret, carbon_ret, tech_ret, pc, results, returned,
                    file, dir_exists, today, invoked, failed_step, last_good >>

\* a /process request that succeeds, seen from here: the company has one row in
\* the enhanced CSV afterwards (lines 183-232)
Processed(company_name) ==
    /\ backend.client
    /\ backend' = [backend EXCEPT !.csv =
          [exists |-> TRUE,
           rows |-> Append(SelectSeq(backend.csv.rows, LAMBDA n : n # company_name),
                           company_name)]]
    /\ UNCHANGED << holt_series, previous, callers, climate_data, carbon_data, tech_data,
                    countries, climate_ret, carbon_ret, tech_ret, pc, results, returned,
                    file, dir_exists, today, invoked, failed_step, last_good >>

\* lines 62-72: the server starts again; the Gemini client is configured or it
\* is None, the files stay
ServerStart ==
    /\ \E configured \in BOOLEAN : backend' = [backend EXCEPT !.client = configured]
    /\ UNCHANGED << holt_series, previous, callers, climate_data, carbon_data, tech_data,
                    countries, climate_ret, carbon_ret, tech_ret, pc, results, returned,
                    file, dir_exists, today, invoked, failed_step, last_good >>

InitPathway ==
    /\ climate_data = NoClimateData
    /\ carbon_data = NoCarbonData
    /\ tech_data = NoTechData
    /\ countries = << >>
    /\ climate_ret = NotEvaluated /\ carbon_ret = NotEvaluated /\ tech_ret = NotEvaluated
    /\ pc = "idle"
    /\ results = NoBundle /\ returned = NoBundle /\ last_good = NoBundle
    /\ file = NoFile /\ dir_exists = FALSE
    /\ today = 0
    /\ invoked = {}
    /\ failed_step = "none"
    /\ previous = NoPrevious
    /\ callers = NoCallers
    /\ holt_series = NoSeries
    /\ \E configured \in BOOLEAN :
          backend = [client |-> configured, csv |-> NoCsv, html |-> {},
                     last |-> NoResponse]

NextPathway ==
    \/ \E company_name \in Companies : GeneratePathway(company_name)
    \/ \E company_name \in Companies : Processed(company_name)
    \/ ServerStart

SpecPathway == InitPathway /\ [][NextPathway]_vars

----------------------------------------------------------------------------
(* run_comprehensive_risk_assessment entered by several threads at once: the *)
(* Flask server runs its handlers threaded (src/backend_api.py line 588) and *)
(* the function takes no lock.  No step fails here.                          *)

\* threads inside the function at the same time
NumCallers == 2
Callers == 1..NumCallers

\* the locals of one thread: its position, its argument, its bundle, the
\* position of its file object in the file, and what it returned
IdleCaller ==
    [pc |-> "idle", countries |-> << >>, results |-> NoBundle, offset |-> 0,
     returned |-> NoBundle]

\* bytes never written, which the OS supplies when a write lands beyond the end
Hole == << "", 0 >>

\* a write of one chunk at position pos of the file: it replaces what is there,
\* or extends the file (leaving a hole if pos lies beyond the end)
WriteAt(content, pos, chunk) ==
    IF pos <= Len(content)
    THEN [content EXCEPT ![pos] = chunk]
    ELSE content \o [k \in 1..(pos - Len(content) - 1) |-> Hole] \o << chunk >>

\* lines 299-314: the early return, or the three evaluations and the bundle
\* (they read the data files only)
CallerEnter(t, cs) ==
    /\ callers[t].pc = "idle"
    /\ callers' = [callers EXCEPT ![t] =
          IF Falsy(cs)
          THEN [@ EXCEPT !.pc = "done", !.countries = cs,
                         !.returned = Degraded("No countries specified for risk assessment")]
          ELSE [@ EXCEPT !.pc = "mkdir", !.countries = cs,
                         !.results =
                             [climate_risk        |-> evaluate_climate_risk(cs, climate_data),
                              carbon_price_risk   |-> evaluate_carbon_price_risk(cs, carbon_data),
                              technology_risk     |-> evaluate_technology_risk(cs, tech_data),
                              timestamp           |-> today,
                              evaluated_countries |-> cs]]]
    /\ UNCHANGED << backend, holt_series, previous, climate_data, carbon_data, tech_data, countries, climate_ret,
                    carbon_ret, tech_ret, pc, results, returned, file, dir_exists, today,
                    invoked, failed_step, last_good >>

\* line 317
CallerMkdir(t) ==
    /\ callers[t].pc = "mkdir"
    /\ dir_exists' = TRUE
    /\ callers' = [callers EXCEPT ![t].pc = "open"]
    /\ UNCHANGED << backend, holt_series, previous, climate_data, carbon_data, tech_data, countries, climate_ret,
                    carbon_ret, tech_ret, pc, results, returned, file, today, invoked,
                    failed_step, last_good >>

\* line 318: open(..., "w") truncates the file; the thread's file object starts
\* at position 0
CallerOpen(t) ==
    /\ callers[t].pc = "open"
    /\ file' = [exists |-> TRUE, content |-> << >>]
    /\ callers' = [callers EXCEPT ![t].pc = "dump", ![t].offset = 0]
    /\ UNCHANGED << backend, holt_series, previous, climate_data, carbon_data, tech_data, countries, climate_ret,
                    carbon_ret, tech_ret, pc, results, returned, dir_exists, today, invoked,
                    failed_step, last_good >>

\* line 319: the next chunk of the text reaches the file, at the position of the
\* thread's own file object
CallerWrite(t) ==
    /\ callers[t].pc = "dump"
    /\ callers[t].offset < Len(KeyOrder)
    /\ file' = [exists |-> TRUE,
                content |-> WriteAt(file.content, callers[t].offset + 1,
                                    Serialize(callers[t].results)[callers[t].offset + 1])]
    /\ callers' = [callers EXCEPT ![t].offset = @ + 1]
    /\ UNCHANGED << backend, holt_series, previous, climate_data, carbon_data, tech_data, countries, climate_ret,
                    carbon_ret, tech_ret, pc, results, returned, dir_exists, today, invoked,
                    failed_step, last_good >>

\* lines 319-321: the text is written, the file is closed, results is returned
CallerReturn(t) ==
    /\ callers[t].pc = "dump"
    /\ callers[t].offset = Len(KeyOrder)
    /\ callers' = [callers EXCEPT ![t].pc = "done", ![t].returned = callers[t].results]
    /\ UNCHANGED << backend, holt_series, previous, climate_data, carbon_data, tech_data, countries, climate_ret,
                    carbon_ret, tech_ret, pc, results, returned, file, dir_exists, today,
                    invoked, failed_step, last_good >>

InitConc ==
    /\ \E w \in Worlds :
          /\ climate_data = ClimateFile([c \in Names |-> Profile(c, w[c]).climate])
          /\ carbon_data = CarbonFile([c \in Names |-> Profile(c, w[c]).carbon])
          /\ tech_data = TechFile([c \in Names |-> Profile(c, w[c]).tech])
    /\ countries = << >>
    /\ climate_ret = NotEvaluated /\ carbon_ret = NotEvaluated /\ tech_ret = NotEvaluated
    /\ pc = "idle"
    /\ results = NoBundle /\ returned = NoBundle /\ last_good = NoBundle
    /\ file = NoFile /\ dir_exists = FALSE
    /\ today = 0
    /\ invoked = {}
    /\ failed_step = "none"
    /\ previous = NoPrevious
    /\ callers = [t \in Callers |-> IdleCaller]
    /\ holt_series = NoSeries
    /\ backend = NoBackend

NextConc ==
    \E t \in Callers :
        \/ \E cs \in Lists(MaxArgs) : CallerEnter(t, cs)
        \/ CallerMkdir(t)
        \/ CallerOpen(t)
        \/ CallerWrite(t)
        \/ CallerReturn(t)

SpecConc == InitConc /\ [][NextConc]_vars

----------------------------------------------------------------------------
(* Properties of run_comprehensive_risk_assessment (checked under Spec) *)

Unknown3(b) ==
    /\ DOMAIN b = {"error", "climate_risk", "carbon_price_risk", "technology_risk"}
    /\ b.error # ""
    /\ b.climate_risk = [overall_risk |-> "Unknown"]
    /\ b.carbon_price_risk = [overall_risk |-> "Unknown"]
    /\ b.technology_risk = [overall_risk |-> "Unknown"]

\* the positions of the code of run_comprehensive_risk_assessment; a call that
\* raised to its caller would be at "raised"
Positions == {"idle", "climate", "carbon", "technology", "assemble", "mkdir", "open",
              "dump", "return", "except"}

\* C1: run_comprehensive_risk_assessment never raises to its caller, and a call in
\* which a step of the try block failed (mkdir, open, json.dump) has returned a
\* mapping with an error string and the three domains {overall_risk: "Unknown"}
C1_NeverRaises ==
    /\ pc \in Positions
    /\ (pc = "idle" /\ failed_step # "none") => Unknown3(returned)

C1_Witness ==
    /\ pc = "idle" /\ failed_step = "dump" /\ Unknown3(returned) /\ last_good # NoBundle

\* C2: a call with an empty list returns the three domains {overall_risk: "Unknown"}
\* with a non-empty error message, and has invoked none of the three evaluators
C2_EmptyList ==
    (pc = "idle" /\ returned # NoBundle /\ Len(countries) = 0)
        => /\ Unknown3(returned)
           /\ invoked = {}
           /\ climate_ret = NotEvaluated /\ carbon_ret = NotEvaluated
           /\ tech_ret = NotEvaluated

C2_Witness ==
    /\ pc = "idle" /\ returned # NoBundle /\ Len(countries) = 0
    /\ last_good # NoBundle /\ invoked = {}

\* C3 (as claimed): between calls, the file holds exactly the bundle returned by
\* the most recent call that returned a non-degraded bundle
C3_FileHoldsLastGood ==
    (pc = "idle" /\ last_good # NoBundle)
        => /\ file.exists
           /\ Complete(file.content)
           /\ Parse(file.content) = last_good

\* the file holds the bundle of the last call that returned a non-degraded one
HoldsLastGood(f, good) ==
    f.exists /\ Complete(f.content) /\ Parse(f.content) = good

\* C25: a call with an empty country list leaves the persisted file and its
\* directory as they were: nothing is created, truncated or overwritten, and a
\* file that held the previous non-degraded assessment still holds it
C25_EmptyListKeepsFile ==
    [][ (pc = "idle" /\ pc' = "idle" /\ Len(countries') = 0)
           => /\ file' = file
              /\ dir_exists' = dir_exists
              /\ last_good' = last_good
              /\ HoldsLastGood(file, last_good) => HoldsLastGood(file', last_good') ]_vars

\* a call with an empty list has returned, after a call that persisted a bundle
C25_Witness ==
    /\ pc = "idle" /\ Len(countries) = 0 /\ Unknown3(returned)
    /\ failed_step = "none"
    /\ last_good # NoBundle
    /\ HoldsLastGood(file, last_good)

\* C26: the persisted file, if it exists, always contains one complete bundle,
\* never an empty or partly written one; and after a call that returned the
\* degraded bundle because open or json.dump raised, the file is what it was
\* before the call: absent if no assessment was persisted yet, the bundle of the
\* last completed assessment otherwise
C26_FailedPersistenceKeepsFile ==
    /\ file.exists => Complete(file.content)
    /\ (pc = "idle" /\ failed_step \in {"open", "dump"}) =>
          IF last_good = NoBundle THEN file = NoFile ELSE HoldsLastGood(file, last_good)

----------------------------------------------------------------------------
(* Properties of the order of the evaluations (checked under SpecOrder) *)

----------------------------------------------------------------------------
(* Properties of the series handed to Holt (checked under SpecSeries) *)

\* the last observation before position k that is not missing (NaN if none)
RECURSIVE LastKnown(_, _)
LastKnown(raw, k) ==
    IF k = 0 THEN NaN
    ELSE IF ~IsNaN(raw[k]) THEN raw[k]
    ELSE LastKnown(raw, k - 1)

\* C23 (as claimed): the series an evaluator fits Holt to has no missing value
\* and no infinity: it is the historical series with every missing observation
\* replaced by the last known earlier value and every infinity by 0
C23_CleanSeries ==
    (holt_series.evaluator # "none" /\ holt_series.fitted) =>
        /\ \A k \in 1..Len(holt_series.handed) :
              ~IsNaN(holt_series.handed[k]) /\ ~IsInf(holt_series.handed[k])
        /\ Len(holt_series.handed) = Len(holt_series.raw)
        /\ \A k \in 1..Len(holt_series.raw) :
              LET v == LastKnown(holt_series.raw, k)
              IN  ~IsNaN(v) => holt_series.handed[k] = IF IsInf(v) THEN 0 ELSE v

----------------------------------------------------------------------------
(* src/backend_api.py: /process requests handled by the threads of the      *)
(* server (threaded=True): backend.handlers holds, for each thread, its      *)
(* position in run_processing_for_company and its local enhanced_df          *)

IdleHandler == [at |-> "idle", company |-> "", enhanced_df |-> << >>, success |-> FALSE]

Without(rows, company_name) == SelectSeq(rows, LAMBDA n : n # company_name)

\* lines 136-180 and 348-352: a thread takes a request; the PDF, the company's
\* row of the Excel file, the text and the LLM extraction are there, or one of
\* them is not and the request has failed
ProcessEnter(t, company_name) ==
    /\ backend.handlers[t].at \in {"idle", "done"}
    /\ \E ok \in BOOLEAN :
          backend' = [backend EXCEPT !.handlers[t] =
              [at |-> IF backend.client /\ ok THEN "load" ELSE "done",
               company |-> company_name, enhanced_df |-> << >>, success |-> FALSE]]
    /\ UNCHANGED << holt_series, previous, callers, climate_data, carbon_data, tech_data,
                    countries, climate_ret, carbon_ret, tech_ret, pc, results, returned,
                    file, dir_exists, today, invoked, failed_step, last_good >>

\* lines 183-193: the thread reads the CSV, if it is there, and drops the rows of
\* its company
ProcessLoad(t) ==
    /\ backend.handlers[t].at = "load"
    /\ backend' = [backend EXCEPT
          !.handlers[t].at = "save",
          !.handlers[t].enhanced_df =
              IF backend.csv.exists
              THEN Without(backend.csv.rows, backend.handlers[t].company)
              ELSE << >>]
    /\ UNCHANGED << holt_series, previous, callers, climate_data, carbon_data, tech_data,
                    countries, climate_ret, carbon_ret, tech_ret, pc, results, returned,
                    file, dir_exists, today, invoked, failed_step, last_good >>

\* lines 195-232: the thread appends its company's row to its enhanced_df and
\* writes the whole frame over the CSV (save_enhanced_data, src/data/savers.py
\* lines 6-18), or the write raises and the request has failed (lines 234-236)
ProcessSave(t) ==
    /\ backend.handlers[t].at = "save"
    /\ \/ backend' = [backend EXCEPT
             !.csv = [exists |-> TRUE,
                      rows |-> Append(backend.handlers[t].enhanced_df,
                                      backend.handlers[t].company)],
             !.handlers[t].at = "done",
             !.handlers[t].success = TRUE]
       \/ backend' = [backend EXCEPT !.handlers[t].at = "done"]
    /\ UNCHANGED << holt_series, previous, callers, climate_data, carbon_data, tech_data,
                    countries, climate_ret, carbon_ret, tech_ret, pc, results, returned,
                    file, dir_exists, today, invoked, failed_step, last_good >>

InitProcess ==
    /\ climate_data = NoClimateData
    /\ carbon_data = NoCarbonData
    /\ tech_data = NoTechData
    /\ countries = << >>
    /\ climate_ret = NotEvaluated /\ carbon_ret = NotEvaluated /\ tech_ret = NotEvaluated
    /\ pc = "idle"
    /\ results = NoBundle /\ returned = NoBundle /\ last_good = NoBundle
    /\ file = NoFile /\ dir_exists = FALSE
    /\ today = 0
    /\ invoked = {}
    /\ failed_step = "none"
    /\ previous = NoPrevious
    /\ callers = NoCallers
    /\ holt_series = NoSeries
    /\ \E configured \in BOOLEAN :
          backend = [client |-> configured, csv |-> NoCsv, html |-> {},
                     last |-> NoResponse, handlers |-> [t \in Callers |-> IdleHandler]]

NextProcess ==
    \/ \E t \in Callers, company_name \in Companies : ProcessEnter(t, company_name)
    \/ \E t \in Callers : ProcessLoad(t)
    \/ \E t \in Callers : ProcessSave(t)

SpecProcess == InitProcess /\ [][NextProcess]_vars

----------------------------------------------------------------------------
(* Properties of concurrent /process requests (checked under SpecProcess) *)

HasRow(company_name) == InCsv(backend.csv, company_name)

\* C30: when two requests for two different companies, handled by two threads,
\* have both reported success, the CSV holds a row of each of the two
\* companies; and no company name is in more than one row of the CSV
C30_BothRowsKept ==
    /\ \A t, u \in Callers :
          ( /\ backend.handlers[t].at = "done" /\ backend.handlers[t].success
            /\ backend.handlers[u].at = "done" /\ backend.handlers[u].success
            /\ backend.handlers[t].company # backend.handlers[u].company )
          => (HasRow(backend.handlers[t].company) /\ HasRow(backend.handlers[u].company))
    /\ \A j, k \in 1..Len(backend.csv.rows) :
          j # k => backend.csv.rows[j] # backend.csv.rows[k]

----------------------------------------------------------------------------
(* Properties of the /generate-pathway endpoint (checked under SpecPathway) *)

\* the last call returned the path of the company's pathway HTML
ReturnedPath ==
    backend.last.response = [path |-> RelativePath(backend.last.company)]

\* the second half of C24: with no file before the call, the path is returned
\* only if the file exists afterwards, and FileNotFoundError is raised when
\* get_recommendations returns without the file being there
GeneratedOrNotFound ==
    ~backend.last.existed =>
        /\ "path" \in DOMAIN backend.last.response =>
              /\ ReturnedPath
              /\ backend.last.company \in backend.html
        /\ (backend.last.gen \in {"saved", "missing"}
                /\ backend.last.company \notin backend.html)
              => backend.last.response = [raised |-> "FileNotFoundError"]

\* C24: once the pathway HTML of a company exists, every later call
\* for it returns the same relative path with no regeneration; when the file
\* does not exist the path is returned only if the file exists after generation,
\* and FileNotFoundError is raised otherwise
C24_ExistingPathway ==
    backend.last # NoResponse =>
        /\ backend.last.existed => (ReturnedPath /\ backend.last.gen = "none")
        /\ GeneratedOrNotFound

----------------------------------------------------------------------------
(* Properties of concurrent calls (checked under SpecConc) *)

\* every thread has returned, one of them at least with a bundle
AllReturned ==
    /\ \A t \in Callers : callers[t].pc = "done"
    /\ \E t \in Callers : "error" \notin DOMAIN callers[t].returned

\* C20 (as claimed): when several callers have run the function concurrently and
\* all have returned, the file holds exactly the complete bundle one of them
\* returned, never a mixture of two bundles nor a truncated text
C20_OneWholeBundle ==
    AllReturned =>
        /\ file.exists
        /\ Complete(file.content)
        /\ \E t \in Callers :
              /\ "error" \notin DOMAIN callers[t].returned
              /\ Parse(file.content) = callers[t].returned

----------------------------------------------------------------------------
(* Properties of evaluate_climate_risk (checked under SpecClimate) *)

ClimateReturned == "country_risks" \in DOMAIN climate_ret
ClimateForecasted ==
    { c \in DOMAIN climate_ret.country_risks :
        climate_ret.country_risks[c].status = "Forecasted" }
\* the forecast of the final (third) period
ClimateFinal(c) == climate_data.area[c].forecast[ClimateHorizon]

\* C4: the label of a forecasted country is a function of its final forecast value
\* alone; 1.5 is Low, 1.6 and 2.9 are Medium, 3.0 and 10.0 are High
C4_ClimatePoints ==
    ClimateReturned =>
        /\ \A c \in ClimateForecasted :
              LET v == ClimateFinal(c)
                  level == climate_ret.country_risks[c].risk_level
              IN  /\ v = 150 => level = "Low"
                  /\ v = 160 => level = "Medium"
                  /\ v = 290 => level = "Medium"
                  /\ v = 300 => level = "High"
                  /\ v = 1000 => level = "High"
        /\ \A c, d \in ClimateForecasted :
              ClimateFinal(c) = ClimateFinal(d)
                  => climate_ret.country_risks[c].risk_level
                         = climate_ret.country_risks[d].risk_level

C4_Witness ==
    /\ ClimateReturned
    /\ {"A", "B"} \subseteq ClimateForecasted
    /\ ClimateFinal("A") = 150 /\ ClimateFinal("B") = 150
    /\ climate_data.area["A"].forecast # climate_data.area["B"].forecast
    /\ climate_ret.country_risks["A"].risk_level = "Low"

\* C5 (as claimed): on the grid of hundredths, a forecasted country is Low iff
\* v <= 1.5, Medium iff 1.6 <= v <= 2.9, High iff v > 2.9
C5_ClimateThresholds ==
    ClimateReturned =>
        \A c \in ClimateForecasted :
            LET v == ClimateFinal(c)
                level == climate_ret.country_risks[c].risk_level
            IN  ~IsNaN(v) =>
                  /\ level = "Low" <=> v <= 150
                  /\ level = "Medium" <=> (160 <= v /\ v <= 290)
                  /\ level = "High" <=> v > 290

\* the label of the country at position i of the requested list
ClimateLevelAt(i) == climate_ret.country_risks[countries[i]].risk_level
ClimateCount(level) == Cardinality({ i \in 1..Len(countries) : ClimateLevelAt(i) = level })

\* C8: overall_risk is High if a requested country is High; otherwise Medium if
\* more requested countries are Medium than Low; otherwise Low (a tie, zero of
\* each included); Unknown countries are in no tally
C8_ClimateOverall ==
    ClimateReturned =>
        climate_ret.overall_risk =
            IF ClimateCount("High") >= 1 THEN "High"
            ELSE IF ClimateCount("Medium") > ClimateCount("Low") THEN "Medium"
            ELSE "Low"

C8_Witness ==
    /\ ClimateReturned
    /\ ClimateCount("High") = 0
    /\ ClimateCount("Medium") = 1 /\ ClimateCount("Low") = 1 /\ ClimateCount("Unknown") = 1
    /\ climate_ret.overall_risk = "Low"

\* the requested positions whose country has no row in the climate data
ClimateAbsentAt == { i \in 1..Len(countries) : climate_data.area[countries[i]].kind = "absent" }

\* C11: a requested country with no row in the climate data is recorded as exactly
\* {status: "No data available", risk_level: "Unknown"}, the evaluator returns its
\* result all the same, and overall_risk is Low when no requested country is
\* classified
C11_AbsentCountry ==
    (climate_ret # NotEvaluated /\ climate_data.readable) =>
        /\ ClimateReturned
        /\ \A i \in ClimateAbsentAt :
              climate_ret.country_risks[countries[i]]
                  = [status |-> "No data available", risk_level |-> "Unknown"]
        /\ (\A i \in 1..Len(countries) : climate_data.area[countries[i]].kind # "ok")
              => climate_ret.overall_risk = "Low"

\* two absent countries and one whose series is all null: nothing classified
C11_Witness ==
    /\ climate_ret # NotEvaluated /\ climate_data.readable
    /\ Len(countries) = 3
    /\ Cardinality(ClimateAbsentAt) = 2
    /\ \E i \in 1..Len(countries) : climate_data.area[countries[i]].kind = "allnull"
    /\ climate_ret.overall_risk = "Low"

\* the entries of the returned map that carry the label
ClimateMapCount(level) ==
    Cardinality({ c \in DOMAIN climate_ret.country_risks :
                    climate_ret.country_risks[c].risk_level = level })

\* C27: for every requested list, lists that repeat a name included, overall_risk
\* is the aggregation rule applied to the labels present in the returned
\* country_risks map: High if an entry is High, otherwise Medium if more entries
\* are Medium than Low, otherwise Low
C27_OverallFromMap ==
    ClimateReturned =>
        climate_ret.overall_risk =
            IF ClimateMapCount("High") >= 1 THEN "High"
            ELSE IF ClimateMapCount("Medium") > ClimateMapCount("Low") THEN "Medium"
            ELSE "Low"

----------------------------------------------------------------------------
(* Properties of evaluate_technology_risk (checked under SpecTech) *)

TechReturned == "country_details" \in DOMAIN tech_ret
TechForecasted ==
    { c \in DOMAIN tech_ret.country_details :
        tech_ret.country_details[c].status = "Forecasted" }
\* c: the forecast of the final (4th) period; a: the third-from-last forecast
TechFinal(c) == tech_data.cols[c].forecast[TechHorizon]
TechThirdFromLast(c) == tech_data.cols[c].forecast[TechHorizon - 2]

TechLevelAt(i) == tech_ret.country_details[countries[i]].risk_level
TechHighCount == Cardinality({ i \in 1..Len(countries) : TechLevelAt(i) = "High" })

\* C10: overall_risk is High iff the number of requested countries labelled High
\* is greater than len(countries) / 2, every requested country counting in len,
\* and Low otherwise
C10_TechOverall ==
    TechReturned =>
        tech_ret.overall_risk = IF 2 * TechHighCount > Len(countries) THEN "High" ELSE "Low"

\* exactly half of the requested countries High, another one Unknown: Low
C10_Witness ==
    /\ TechReturned
    /\ Len(countries) >= 2
    /\ 2 * TechHighCount = Len(countries)
    /\ \E i \in 1..Len(countries) : TechLevelAt(i) = "Unknown"
    /\ tech_ret.overall_risk = "Low"

----------------------------------------------------------------------------
(* Properties of evaluate_carbon_price_risk (checked under SpecCarbon) *)

CarbonReturned == "country_details" \in DOMAIN carbon_ret
\* the requested countries whose entry is the forecast of a source
CarbonProcessed ==
    { c \in DOMAIN carbon_ret.country_details :
        "ecr_change" \in DOMAIN carbon_ret.country_details[c] }

\* final forecast value - last historical value of a measure (a forecast that is
\* all NaN is replaced by the last historical value); 0 when the forecast failed
Delta(md) ==
    IF md.kind = "raise" THEN 0
    ELSE IF \A k \in 1..CarbonHorizon : IsNaN(md.pred[k]) THEN 0
    ELSE md.pred[CarbonHorizon] - md.initial

ThreeMeasureDelta(src) ==
    Delta(src.measures["CARBTAX"]) + Delta(src.measures["FUETAX"])
        + Delta(src.measures["MPERPRI"])

\* C7: for every source processed, ecr_change is the sum of the deltas of CARBTAX,
\* FUETAX and MPERPRI, the SUBSID delta is not in it, and the source is High iff
\* ecr_change > 0 (deltas +2, +1, 0 with SUBSID -5: ecr_change = 3 and High)
C7_EcrChange ==
    CarbonReturned =>
        /\ \A c \in CarbonProcessed :
              LET sf  == carbon_ret.country_details[c]
                  src == Last(carbon_data.area[c].sources)
              IN  /\ sf.ecr_change = ThreeMeasureDelta(src)
                  /\ sf.risk_level = "High" <=> sf.ecr_change > 0
                  /\ sf.risk_level = "Low" <=> sf.ecr_change <= 0
        /\ \A i \in 1..Len(countries) :
              \A j \in 1..Len(carbon_data.area[countries[i]].sources) :
                  LET src == carbon_data.area[countries[i]].sources[j]
                  IN  SourceForecast(src).ecr_change = ThreeMeasureDelta(src)

C7_Witness ==
    /\ CarbonReturned
    /\ "A" \in CarbonProcessed
    /\ LET sf == carbon_ret.country_details["A"]
       IN  /\ \A m \in DOMAIN sf.measures : "change" \in DOMAIN sf.measures[m]
           /\ sf.measures["CARBTAX"].change = 2
           /\ sf.measures["FUETAX"].change = 1
           /\ sf.measures["MPERPRI"].change = 0
           /\ sf.measures["SUBSID"].change = 0 - 5
           /\ sf.ecr_change = 3
           /\ sf.risk_level = "High"

\* the measures of a source that Holt raises on
RaisingMeasures(src) == { m \in DOMAIN src.measures : src.measures[m].kind = "raise" }
\* the processed countries whose reported source has a measure Holt raises on
CarbonFailed ==
    { c \in CarbonProcessed : RaisingMeasures(Last(carbon_data.area[c].sources)) # {} }

NoSectorRow == \A i \in 1..Len(countries) : carbon_data.area[countries[i]].sources = << >>

\* C15 (as claimed): when the data holds no row of the selected sector for any
\* requested country, rows of other sectors notwithstanding, the evaluator returns
\* overall_risk "Unknown" with an explanatory message, never Low or High
C15_NoSectorData ==
    (carbon_ret # NotEvaluated /\ carbon_data.readable /\ NoSectorRow) =>
        /\ carbon_ret.overall_risk = "Unknown"
        /\ "details" \in DOMAIN carbon_ret

\* the (position, source) pairs of the request whose source is labelled High
CarbonHighPairs ==
    UNION { { << i, j >> : j \in { j \in 1..Len(carbon_data.area[countries[i]].sources) :
                  ThreeMeasureDelta(carbon_data.area[countries[i]].sources[j]) > 0 } }
            : i \in 1..Len(countries) }

\* some requested country has a row in the data
CarbonDataExists ==
    /\ carbon_data.readable
    /\ \E i \in 1..Len(countries) :
          \/ carbon_data.area[countries[i]].sources # << >>
          \/ carbon_data.area[countries[i]].other_sector

\* C9: when country data exists, overall_risk is High iff the number of
\* (country, source) pairs labelled High is greater than len(countries) / 2, every
\* requested country counting in len, and Low otherwise; it is never Medium
C9_CarbonOverall ==
    (carbon_ret # NotEvaluated /\ CarbonDataExists) =>
        /\ CarbonReturned
        /\ carbon_ret.overall_risk =
              IF 2 * Cardinality(CarbonHighPairs) > Len(countries) THEN "High" ELSE "Low"

\* two High sources of one country among three requested, one without data: High
C9_Witness ==
    /\ carbon_ret # NotEvaluated /\ CarbonDataExists
    /\ Len(countries) = 3
    /\ Cardinality(CarbonHighPairs) = 2
    /\ Cardinality({ CarbonHighPairs_i[1] : CarbonHighPairs_i \in CarbonHighPairs }) = 1
    /\ \E i \in 1..Len(countries) : carbon_data.area[countries[i]].sources = << >>
    /\ carbon_ret.overall_risk = "High"

\* C19: for a country with several sources, country_details[country] is the
\* forecast detail of the last source iterated, one source's structure and not a
\* list, while every source labelled High has been counted for overall_risk
C19_LastSourceWins ==
    CarbonReturned =>
        /\ \A i \in 1..Len(countries) :
              LET srcs == carbon_data.area[countries[i]].sources
                  sf   == carbon_ret.country_details[countries[i]]
              IN  srcs # << >> =>
                    /\ DOMAIN sf = {"source", "measures", "ecr_change", "risk_level"}
                    /\ sf.source = srcs[Len(srcs)].source
                    /\ sf.ecr_change = ThreeMeasureDelta(srcs[Len(srcs)])
        /\ carbon_ret.overall_risk = "High"
              <=> 2 * Cardinality(CarbonHighPairs) > Len(countries)

\* one country requested, its first source High and its second Low: the entry
\* shown is the Low one, overall_risk is High
C19_Witness ==
    /\ CarbonReturned
    /\ Len(countries) = 1
    /\ LET srcs == carbon_data.area[countries[1]].sources
           sf   == carbon_ret.country_details[countries[1]]
       IN  /\ Len(srcs) = 2
           /\ ThreeMeasureDelta(srcs[1]) > 0
           /\ sf.source = "s2"
           /\ sf.risk_level = "Low"
    /\ carbon_ret.overall_risk = "High"

\* the requested positions whose country_details entry is labelled High
CarbonHighAt ==
    { i \in 1..Len(countries) :
        LET sf == carbon_ret.country_details[countries[i]]
        IN  "risk_level" \in DOMAIN sf /\ sf.risk_level = "High" }

\* every requested country has rows of the sector in the data
CarbonAllHaveData ==
    \A i \in 1..Len(countries) : carbon_data.area[countries[i]].sources # << >>

\* C29 (as claimed): when overall_risk is High some entry of country_details is
\* labelled High; when it is Low and every requested country has data, at most
\* half of the requested countries have an entry labelled High
C29_HighEntry ==
    CarbonReturned =>
        /\ carbon_ret.overall_risk = "High" => CarbonHighAt # {}
        /\ (carbon_ret.overall_risk = "Low" /\ CarbonAllHaveData)
              => 2 * Cardinality(CarbonHighAt) <= Len(countries)

\* C29 (amended): when overall_risk is High some (country, source) pair is
\* labelled High, though the entry of its country may be that of a later, Low
\* source; a country whose entry is High has a source labelled High; and when
\* overall_risk is Low and every requested country has data, at most half of the
\* requested list positions have an entry labelled High
C29_HighPair ==
    CarbonReturned =>
        /\ carbon_ret.overall_risk = "High" => CarbonHighPairs # {}
        /\ \A i \in CarbonHighAt : \E pair \in CarbonHighPairs : pair[1] = i
        /\ (carbon_ret.overall_risk = "Low" /\ CarbonAllHaveData)
              => 2 * Cardinality(CarbonHighAt) <= Len(countries)

\* two countries with data, the entry of one labelled High, the other's first
\* source High and its entry Low: one High pair hidden, overall_risk High
C29_Witness ==
    /\ CarbonReturned
    /\ Len(countries) = 2 /\ countries[1] # countries[2]
    /\ CarbonAllHaveData
    /\ Cardinality(CarbonHighAt) = 1
    /\ Cardinality(CarbonHighPairs) = 2
    /\ \E pair \in CarbonHighPairs : pair[1] \notin CarbonHighAt
    /\ carbon_ret.overall_risk = "High"

----------------------------------------------------------------------------
(* Properties of the three evaluators together (checked under SpecEval) *)

\* the requested positions whose country Holt raises on, and the other positions
ClimateRaisingAt == { i \in 1..Len(countries) : climate_data.area[countries[i]].kind = "raise" }
TechRaisingAt == { i \in 1..Len(countries) : tech_data.cols[countries[i]].kind = "raise" }
ClimateOthers(level) ==
    Cardinality({ i \in (1..Len(countries)) \ ClimateRaisingAt : ClimateLevelAt(i) = level })
TechOthersHigh ==
    Cardinality({ i \in (1..Len(countries)) \ TechRaisingAt : TechLevelAt(i) = "High" })

\* C12: when Holt raises for a country in the climate or the technology
\* evaluator, the country is recorded as {status: "Error in forecasting: <message>",
\* risk_level: "Unknown"} and is in no tally, every other requested country still
\* gets its entry, and overall_risk is what the tallies of the other countries give
C12_ForecastError ==
    /\ ClimateReturned =>
          /\ \A i \in ClimateRaisingAt :
                climate_ret.country_risks[countries[i]]
                    = [status |-> "Error in forecasting: " \o climate_data.area[countries[i]].msg,
                       risk_level |-> "Unknown"]
          /\ \A i \in 1..Len(countries) : countries[i] \in DOMAIN climate_ret.country_risks
          /\ climate_ret.overall_risk =
                IF ClimateOthers("High") >= 1 THEN "High"
                ELSE IF ClimateOthers("Medium") > ClimateOthers("Low") THEN "Medium"
                ELSE "Low"
    /\ TechReturned =>
          /\ \A i \in TechRaisingAt :
                tech_ret.country_details[countries[i]]
                    = [status |-> "Error in forecasting: " \o tech_data.cols[countries[i]].msg,
                       risk_level |-> "Unknown"]
          /\ \A i \in 1..Len(countries) : countries[i] \in DOMAIN tech_ret.country_details
          /\ tech_ret.overall_risk =
                IF 2 * TechOthersHigh > Len(countries) THEN "High" ELSE "Low"

\* Holt raises for the first country in both evaluators; the two countries after
\* it are classified and decide overall_risk
C12_Witness ==
    /\ ClimateReturned /\ TechReturned
    /\ Len(countries) = 3
    /\ 1 \in ClimateRaisingAt /\ 1 \in TechRaisingAt
    /\ ClimateLevelAt(2) = "High" /\ ClimateLevelAt(3) = "Low"
    /\ TechLevelAt(2) = "Low" /\ TechLevelAt(3) = "High"
    /\ climate_ret.overall_risk = "High"
    /\ tech_ret.overall_risk = "Low"

\* C14: no evaluator raises to its caller: each returns a dictionary with
\* overall_risk, and when an exception occurs outside the per-entity forecasting
\* step (the data file cannot be read) the dictionary is exactly {overall_risk:
\* "Unknown", error: <message>}
C14_OuterException ==
    /\ "overall_risk" \in DOMAIN climate_ret
    /\ "overall_risk" \in DOMAIN carbon_ret
    /\ "overall_risk" \in DOMAIN tech_ret
    /\ (climate_ret # NotEvaluated /\ ~climate_data.readable)
          => climate_ret = [overall_risk |-> "Unknown", error |-> climate_data.msg]
    /\ (carbon_ret # NotEvaluated /\ ~carbon_data.readable)
          => carbon_ret = [overall_risk |-> "Unknown", error |-> carbon_data.msg]
    /\ (tech_ret # NotEvaluated /\ ~tech_data.readable)
          => tech_ret = [overall_risk |-> "Unknown", error |-> tech_data.msg]

\* the three evaluators called on three countries with no file readable
C14_Witness ==
    /\ Evaluated
    /\ Len(countries) = 3
    /\ ~climate_data.readable /\ ~carbon_data.readable /\ ~tech_data.readable
    /\ climate_ret.error = "No such file"
    /\ carbon_ret.error = "No such file"
    /\ tech_ret.error = "No such file"

\* a forecast whose every period is NaN
AllNaN(forecast) == forecast # << >> /\ \A k \in 1..Len(forecast) : IsNaN(forecast[k])

\* C16 (as claimed): in every evaluator a forecast that is NaN in every period is
\* replaced by the last observed value of the series, repeated, so the value
\* classified and returned is that last observed value and never NaN
C16_NaNFallback ==
    /\ ClimateReturned =>
          \A c \in ClimateForecasted :
              AllNaN(climate_data.area[c].forecast) =>
                  /\ ~IsNaN(climate_ret.country_risks[c].forecast_temp_rise)
                  /\ climate_ret.country_risks[c].forecast_temp_rise
                         = climate_data.area[c].current
    /\ TechReturned =>
          \A c \in TechForecasted :
              AllNaN(tech_data.cols[c].forecast) =>
                  /\ ~IsNaN(tech_ret.country_details[c].forecast_value)
                  /\ tech_ret.country_details[c].forecast_value = tech_data.cols[c].current
    /\ ("country_details" \in DOMAIN carbon_ret) =>
          \A c \in { c \in DOMAIN carbon_ret.country_details :
                        "measures" \in DOMAIN carbon_ret.country_details[c] } :
              LET src == carbon_data.area[c].sources[Len(carbon_data.area[c].sources)]
              IN  \A m \in DOMAIN src.measures :
                      (src.measures[m].kind = "ok" /\ AllNaN(src.measures[m].pred)) =>
                          /\ ~IsNaN(carbon_ret.country_details[c].measures[m].forecast)
                          /\ carbon_ret.country_details[c].measures[m].forecast
                                 = src.measures[m].initial

\* two results of one evaluator carry the same overall_risk and the same risk
\* label for every entity; key is the name of the evaluator's per-country map
SameLabels(a, b, key) ==
    /\ a.overall_risk = b.overall_risk
    /\ (key \in DOMAIN a) <=> (key \in DOMAIN b)
    /\ (key \in DOMAIN a) =>
          /\ DOMAIN a[key] = DOMAIN b[key]
          /\ \A c \in DOMAIN a[key] : a[key][c].risk_level = b[key][c].risk_level

Requested == { countries[i] : i \in 1..Len(countries) }
\* a result without an error key carries overall_risk and, under key, a map
\* whose keys are exactly the requested countries
WellShaped(ret, key) ==
    "error" \notin DOMAIN ret =>
        /\ "overall_risk" \in DOMAIN ret
        /\ key \in DOMAIN ret
        /\ DOMAIN ret[key] = Requested

\* C18 (as claimed): every result of an evaluator that has no error key contains
\* overall_risk and the per-country map (country_risks for climate,
\* country_details for carbon price and technology), keyed by exactly the
\* requested countries
C18_ResultShape ==
    /\ climate_ret # NotEvaluated => WellShaped(climate_ret, "country_risks")
    /\ carbon_ret # NotEvaluated => WellShaped(carbon_ret, "country_details")
    /\ tech_ret # NotEvaluated => WellShaped(tech_ret, "country_details")

\* no requested country has a row in the carbon data, in any sector
NoCarbonRow ==
    \A i \in 1..Len(countries) :
        /\ carbon_data.area[countries[i]].sources = << >>
        /\ ~carbon_data.area[countries[i]].other_sector

\* C18 (amended): the same, except that the carbon price evaluator, when no
\* requested country has any row in its data, returns {overall_risk: "Unknown",
\* details: <message>}, which has neither an error key nor a per-country map
C18_ResultShapeButNoData ==
    /\ climate_ret # NotEvaluated => WellShaped(climate_ret, "country_risks")
    /\ tech_ret # NotEvaluated => WellShaped(tech_ret, "country_details")
    /\ (carbon_ret # NotEvaluated /\ "error" \notin DOMAIN carbon_ret) =>
          IF NoCarbonRow
          THEN carbon_ret =
                 [overall_risk |-> "Unknown",
                  details |-> "No carbon pricing data available for specified countries"]
          ELSE WellShaped(carbon_ret, "country_details")

\* three different countries, one of them without a row in any file: each map has
\* the three keys
C18_Witness ==
    /\ Evaluated
    /\ Cardinality(Requested) = 3
    /\ "error" \notin DOMAIN climate_ret
    /\ "error" \notin DOMAIN carbon_ret
    /\ "error" \notin DOMAIN tech_ret
    /\ ~NoCarbonRow
    /\ \E c \in Requested : carbon_data.area[c].sources = << >>
    /\ DOMAIN carbon_ret.country_details = Requested
    /\ DOMAIN climate_ret.country_risks = Requested
    /\ DOMAIN tech_ret.country_details = Requested

\* the risk labels, and the risk_level values of the entries of a result
Labels == {"Low", "Medium", "High", "Unknown"}
EntityLabels(ret, key) ==
    IF key \in DOMAIN ret THEN { ret[key][c].risk_level : c \in DOMAIN ret[key] } ELSE {}

\* C22: every overall_risk and every per-entity risk_level is one of Low, Medium,
\* High, Unknown, in the results of the evaluators and in the parts of a degraded
\* bundle; the carbon price and technology evaluators never produce Medium
C22_Labels ==
    /\ climate_ret # NotEvaluated =>
          /\ climate_ret.overall_risk \in Labels
          /\ EntityLabels(climate_ret, "country_risks") \subseteq Labels
    /\ carbon_ret # NotEvaluated =>
          /\ carbon_ret.overall_risk \in Labels \ {"Medium"}
          /\ EntityLabels(carbon_ret, "country_details") \subseteq Labels \ {"Medium"}
    /\ tech_ret # NotEvaluated =>
          /\ tech_ret.overall_risk \in Labels \ {"Medium"}
          /\ EntityLabels(tech_ret, "country_details") \subseteq Labels \ {"Medium"}
    /\ \A step \in {"mkdir", "open", "dump"} :
          \A part \in {"climate_risk", "carbon_price_risk", "technology_risk"} :
              Degraded(step)[part].overall_risk \in Labels

\* climate is Medium overall with Medium and Low countries, while the other two
\* evaluators have answered on the same list
C22_Witness ==
    /\ Evaluated
    /\ climate_ret.overall_risk = "Medium"
    /\ EntityLabels(climate_ret, "country_risks") = {"Medium", "Low"}
    /\ carbon_ret.overall_risk = "Unknown"
    /\ tech_ret.overall_risk = "Low"
    /\ EntityLabels(tech_ret, "country_details") = {"Unknown"}

----------------------------------------------------------------------------
(* Properties of a country's entry in two lists (checked under SpecAlone) *)

NoEntry == [none |-> TRUE]
\* the entry recorded for country c in a result, if there is one
EntryOf(ret, key, c) ==
    IF key \in DOMAIN ret /\ c \in DOMAIN ret[key] THEN ret[key][c] ELSE NoEntry

\* its label, "none" without an entry
LabelOf(ret, key, c) ==
    LET e == EntryOf(ret, key, c)
    IN  IF "risk_level" \in DOMAIN e THEN e.risk_level ELSE "none"

\* the country of the second call
Alone == countries[1]

\* C28 (as claimed): in each of the three evaluators the entry recorded for a
\* requested country is the same whatever other countries are requested with
\* it: the call on the list and the call on the country alone, the data
\* unchanged, return the same entry for the country
C28_EntryAlone ==
    previous # NoPrevious =>
        /\ EntryOf(climate_ret, "country_risks", Alone)
              = EntryOf(previous.climate_risk, "country_risks", Alone)
        /\ EntryOf(carbon_ret, "country_details", Alone)
              = EntryOf(previous.carbon_price_risk, "country_details", Alone)
        /\ EntryOf(tech_ret, "country_details", Alone)
              = EntryOf(previous.technology_risk, "country_details", Alone)

\* the country has no row at all in the carbon data that was read
AloneNoCarbonRow ==
    /\ carbon_data.readable
    /\ carbon_data.area[Alone].sources = << >>
    /\ ~carbon_data.area[Alone].other_sector

\* C28 (amended): the same for the climate and the technology evaluator, and
\* for the carbon price evaluator when the country has a row in the carbon
\* data.  A country without any row has no entry when it is requested alone or
\* with countries that have no row either (the evaluator returns no per-country
\* map then), and the entry {status: "No data available", risk_level: "Unknown"}
\* when it is requested with a country that has a row
C28_EntryAloneButNoData ==
    previous # NoPrevious =>
        /\ EntryOf(climate_ret, "country_risks", Alone)
              = EntryOf(previous.climate_risk, "country_risks", Alone)
        /\ EntryOf(tech_ret, "country_details", Alone)
              = EntryOf(previous.technology_risk, "country_details", Alone)
        /\ IF AloneNoCarbonRow
           THEN /\ EntryOf(carbon_ret, "country_details", Alone) = NoEntry
                /\ EntryOf(previous.carbon_price_risk, "country_details", Alone) =
                      IF CarbonFilteredEmpty(previous.countries, carbon_data)
                      THEN NoEntry
                      ELSE [status |-> "No data available", risk_level |-> "Unknown"]
           ELSE EntryOf(carbon_ret, "country_details", Alone)
                  = EntryOf(previous.carbon_price_risk, "country_details", Alone)

\* a country classified in the three domains, requested with two others and
\* then alone
C28_Witness ==
    /\ previous # NoPrevious
    /\ Len(previous.countries) = 3
    /\ Cardinality({ previous.countries[i] : i \in 1..3 }) = 3
    /\ LabelOf(climate_ret, "country_risks", Alone) = "High"
    /\ LabelOf(carbon_ret, "country_details", Alone) = "High"
    /\ LabelOf(tech_ret, "country_details", Alone) = "Low"
    /\ LabelOf(previous.carbon_price_risk, "country_details", Alone) = "High"
    /\ \E c \in Names : LabelOf(previous.carbon_price_risk, "country_details", c) = "Low"
    /\ \E c \in Names : LabelOf(previous.carbon_price_risk, "country_details", c) = "Unknown"

====
